---- MODULE Spec2Model ----
(***************************************************************************)
(* State-machine model of the storefront scripts (script.js shared logic   *)
(* and product-detail.js): the cart ledger and its localStorage copy, the  *)
(* recently-viewed list in sessionStorage, the overlay / sidebar / modal   *)
(* coordinator with its setTimeout steps, and the grid filter.             *)
(*                                                                         *)
(* Numbers that are prices are held in cents (19.99 is 1999).  A JavaScript*)
(* value is a record [t, v]: t is its kind, v its integer payload.         *)
(***************************************************************************)
EXTENDS Integers, Sequences, FiniteSets, TLC

VARIABLES
    \* ---- cart ledger (script.js top level, updateCartDisplay, addToCart)
    pc,            \* page life cycle: "start" -> "loaded" -> "run"
    cart,          \* window.cart: [arr |-> is it an Array, m |-> own properties]
    shoppingCart,  \* text under localStorage key 'shoppingCart'
    cartElems,     \* #cart-sidebar, #cart-items-list, #cart-total-amount all present
    storageOk,     \* localStorage.setItem does not throw (storage enabled, not full)
    last,          \* the handler that ran last: op, whether it raised an alert,
                   \* bad: its input was invalid in the sense of the data model,
                   \* saved: snap holds a saved cart of the previous page
    nAdds,         \* per id: valid addToCart calls since the id had no entry
    firstAdd,      \* per id: name and price given to the first of those calls
    snap,          \* window.cart as the previous page left it, if that page had
                   \* saved it; kept until this page first changes its cart
    cartTexts      \* the textContent of .cart-count and of #cart-total-amount

VARIABLES
    \* ---- recently viewed (product-detail.js)
    recentlyViewed, \* text under sessionStorage key 'recentlyViewedProducts'
    detailView,     \* #product-detail-content: "loading", "product" or "error"
    rvSlider,       \* #recently-viewed-slider: "none", "empty", "cards" or "hidden"
    lastVisit       \* the last page visit: the product shown, the kind of text
                    \* stored before it, whether that text listed the product

VARIABLES
    \* ---- grid filter (script.js, index page)
    isLoading,        \* the flag of fetchProducts
    fetched,          \* fetchProducts: "no", "inflight", "done" or "failed"
    requests,         \* fetchProducts: requests in flight, and calls that
                      \* returned at the guard while the request was out
    allProductsData,  \* window.allProductsData
    cards,            \* the .product-card elements of #product-grid: id, style.display
    gridMessage,      \* the message paragraphs of #product-grid, in order
    filtersDisabled,  \* the search bar and the inputs of #filters-sidebar are disabled
    searchBar,        \* #search-bar value
    searchTimer,      \* the pending timers set by debouncedApplyFilters: the
                      \* milliseconds each has left, in the order they were set
    burst,            \* the search input events since the bar was last quiet:
                      \* events (counted up to MaxBurst), runs of the timer's
                      \* callback among them, sinceInput: milliseconds since
                      \* the last event
    selectedCategory,
    minPriceSlider,   \* #min-price: [min, max, value]
    maxPriceSlider,   \* #max-price: [min, max, value]
    brandList,        \* the values of the checked brand checkboxes
    applied           \* applyAllFilters has gone through the cards since the
                      \* filter inputs last changed

VARIABLES
    \* ---- overlays, sidebars and modals (script.js UI helpers)
    visible,            \* the elements whose classList holds 'visible'
    noScroll,           \* document.body has the class 'no-scroll'
    lastFocusedElement, \* window.lastFocusedElement, "null" if none
    activeElement,      \* document.activeElement, followed through the
                        \* controls of the overlays
    timers,             \* pending setTimeout callbacks, in the order they were
                        \* set: [kind, delay, el]
    opens,              \* clicks so far that asked for something to open
    recorded,           \* per overlay that is open: document.activeElement as
                        \* openOverlay stored it when the overlay was opened
    lastUi              \* the handler that ran last: "escape" (keydown
                        \* Escape), "closedAgain" (a close control clicked
                        \* with its popup closed already), "other"

VARIABLES
    \* ---- a call of window.calculateDiscountedPrice on its own; amounts
    \* here are in tenths of a cent, so that prices finer than a cent exist
    calcPrice,      \* the price argument
    calcDiscount,   \* the discount argument
    calcResult      \* the object returned, NoResult before the call

VARIABLES
    \* ---- two tabs of the shop over one localStorage (script.js in each)
    tabs,           \* per tab: pc as above, cart: its window.cart, base: the
                    \* stored text it loaded
    tabLog          \* the addToCart calls that changed a cart, in order:
                    \* [tab, id]

VARIABLES
    \* ---- start of the detail page (both DOMContentLoaded handlers)
    pageElems,      \* the elements the document has, and "script.js" if that
                    \* script was loaded
    pageInit        \* what has been started: step, cartDisplay,
                    \* commonListeners, productLoad, contentError, slidersHidden

cartVars == <<pc, cart, shoppingCart, cartElems, storageOk, last, nAdds, firstAdd, snap,
              cartTexts>>
recentVars == <<recentlyViewed, detailView, rvSlider, lastVisit>>
filterVars == <<isLoading, fetched, requests, allProductsData, cards, gridMessage,
                filtersDisabled, searchBar, searchTimer, burst, selectedCategory,
                minPriceSlider, maxPriceSlider, brandList, applied>>
overlayVars == <<visible, noScroll, lastFocusedElement, activeElement, timers, opens,
                 recorded, lastUi>>
priceVars == <<calcPrice, calcDiscount, calcResult>>
tabVars == <<tabs, tabLog>>
pageVars == <<pageElems, pageInit>>
restVars == <<priceVars, tabVars, pageVars>>
vars == <<cartVars, recentVars, filterVars, overlayVars, restVars>>
\* what the handlers of one part of the program leave alone
exceptCart == <<recentVars, filterVars, overlayVars, restVars>>
exceptRecent == <<cartVars, filterVars, overlayVars, restVars>>
exceptFilter == <<cartVars, recentVars, overlayVars, restVars>>
exceptOverlay == <<cartVars, recentVars, filterVars, restVars>>
exceptPrice == <<cartVars, recentVars, filterVars, overlayVars, tabVars, pageVars>>
exceptTabs == <<recentVars, filterVars, overlayVars, priceVars, pageVars>>
exceptPage == <<cartVars, recentVars, filterVars, overlayVars, priceVars, tabVars>>

-----------------------------------------------------------------------------
(* Bounds of the model.                                                    *)
MaxQty == 3        \* addToCart is explored while a quantity is below this
MaxCalls == 2      \* calls of fetchProducts during one request: the page's
                   \* own and one more
MaxTabAdds == 3    \* addToCart calls of the two tabs together
MaxBurst == 2      \* search input events of one burst are counted up to this
MaxPrice == 24     \* calculateDiscountedPrice: every price from 0 to this many
                   \* tenths of a cent is tried

-----------------------------------------------------------------------------
(* JavaScript values.                                                      *)
Num(n)    == [t |-> "num", v |-> n]
Inf       == [t |-> "inf", v |-> 0]       \* Infinity
NaN       == [t |-> "nan", v |-> 0]
Str(k)    == [t |-> "str", v |-> k]       \* a string that is no numeral; Str(0) is ""
NumStr(n) == [t |-> "numstr", v |-> n]    \* the decimal numeral of n, as a string
InfStr    == [t |-> "infstr", v |-> 0]    \* the string "Infinity"
NaNStr    == [t |-> "nanstr", v |-> 0]    \* the string "NaN"
Null      == [t |-> "null", v |-> 0]
Undef     == [t |-> "undef", v |-> 0]

\* typeof x === 'number'
IsNumber(x) == x.t \in {"num", "inf", "nan"}
\* typeof x === 'string'
IsString(x) == x.t \in {"str", "numstr", "infstr"}
\* isNaN(x) for x already a number
IsNaN(x) == x.t = "nan"
\* !!x
Truthy(x) ==
    CASE x.t = "num" -> x.v # 0
      [] x.t = "inf" -> TRUE
      [] x.t = "str" -> x.v # 0
      [] x.t \in {"numstr", "infstr"} -> TRUE
      [] OTHER -> FALSE
\* x < 0 and x <= 0 (comparisons with NaN are false)
LtZero(x) == x.t = "num" /\ x.v < 0
LeZero(x) == x.t = "num" /\ x.v <= 0
\* parseFloat(x)
ParseFloat(x) ==
    CASE x.t \in {"num", "numstr"} -> Num(x.v)
      [] x.t \in {"inf", "infstr"} -> Inf
      [] OTHER -> NaN
\* x++ leaves ToNumber(x) + 1 in x
Incr(x) ==
    CASE x.t \in {"num", "numstr"} -> Num(x.v + 1)
      [] x.t \in {"inf", "infstr"} -> Inf
      [] x.t = "null" -> Num(1)
      [] x.t = "str" /\ x.v = 0 -> Num(1)
      [] OTHER -> NaN
\* JSON.stringify of a property value: NaN and Infinity are written as null,
\* an undefined property is left out (it reads back as undefined)
ToJson(x) == IF x.t \in {"inf", "nan"} THEN Null ELSE x

-----------------------------------------------------------------------------
(* Cart lines and the cart mapping.                                        *)
Ids == {"p1", "p2"}

NoItem   == [t |-> "none", name |-> Undef, price |-> Undef, quantity |-> Undef]
NullItem == [t |-> "null", name |-> Undef, price |-> Undef, quantity |-> Undef]
Item(n, p, q) == [t |-> "obj", name |-> n, price |-> p, quantity |-> q]

EmptyMap == [i \in Ids |-> NoItem]
EmptyCart == [arr |-> FALSE, m |-> EmptyMap]
\* Object.keys(window.cart)
Keys(c) == {i \in Ids : c.m[i].t # "none"}

\* The text stored under 'shoppingCart': k is what JSON.parse makes of it.
Stored(k)    == [k |-> k, m |-> EmptyMap]
StoredObj(m) == [k |-> "obj", m |-> m]
\* JSON.stringify(window.cart): an Array is written with its indexed elements
\* only, so the id-keyed properties of an Array cart are not written
Stringify(c) ==
    IF c.arr THEN Stored("arr")
    ELSE StoredObj([i \in Ids |->
            IF c.m[i].t = "obj"
            THEN Item(ToJson(c.m[i].name), ToJson(c.m[i].price), ToJson(c.m[i].quantity))
            ELSE c.m[i]])

-----------------------------------------------------------------------------
(* Cart load: the try / catch at the top of script.js.                     *)

\* JSON.parse(localStorage.getItem('shoppingCart')) throws a SyntaxError
ParseThrows(s) == s.k = "garbage"
\* the stored text parses to a truthy value that is no object (a number, a
\* string, true): the branch that resets window.cart and rewrites the storage
ResetsStorage(s) == s.k = "num"
\* window.cart after the load step.  A missing key, null, 0, false and ""
\* give {} through `|| {}`; an Array is an object and is kept as it is
LoadedCart(s) ==
    CASE ParseThrows(s) -> EmptyCart          \* the catch block
      [] s.k = "obj" -> [arr |-> FALSE, m |-> s.m]
      [] s.k = "arr" -> [arr |-> TRUE, m |-> EmptyMap]
      [] OTHER -> EmptyCart

NoLast == [op |-> "none", alert |-> FALSE, bad |-> FALSE, saved |-> FALSE]
Did(op) == [NoLast EXCEPT !.op = op]
NoAdd == [name |-> Undef, price |-> Undef]

LoadCart ==
    /\ pc = "start"
    /\ pc' = "loaded"
    /\ cart' = LoadedCart(shoppingCart)
    \* localStorage.setItem('shoppingCart', '{}') may throw; the catch block
    \* then sets window.cart = {} once more
    /\ shoppingCart' = IF ResetsStorage(shoppingCart) /\ storageOk
                       THEN StoredObj(EmptyMap) ELSE shoppingCart
    /\ last' = [Did("load") EXCEPT !.saved = last.saved]
    /\ UNCHANGED <<cartElems, storageOk, nAdds, firstAdd, snap, cartTexts>>
    /\ UNCHANGED exceptCart

-----------------------------------------------------------------------------
(* window.updateCartDisplay: the validation sweep and the save.            *)

\* the test of line 695 that removes an item
ItemInvalid(item) ==
    \/ item.t = "null"
    \/ ~IsNumber(item.quantity)
    \/ ~IsNumber(item.price)
    \/ LeZero(item.quantity)
    \/ IsNaN(item.price)

\* window.cart after productIds.forEach(...) has deleted the invalid items
Swept(c) ==
    [c EXCEPT !.m = [i \in Ids |->
        IF i \in Keys(c) /\ ItemInvalid(c.m[i]) THEN NoItem ELSE c.m[i]]]

\* the early return of line 664: without the cart elements nothing is done
Displays == cartElems

\* window.cart and the stored text after updateCartDisplay() ran on cart c;
\* a setItem that throws is caught and logged
CartAfterDisplay(c) == IF Displays THEN Swept(c) ELSE c
\* (mutant) a save that keeps the stored entries the cart has none for
StoreAfterDisplayMerging(c) ==
    IF Displays /\ storageOk
    THEN StoredObj([i \in Ids |->
            IF Stringify(Swept(c)).m[i].t = "none" /\ shoppingCart.k = "obj"
            THEN shoppingCart.m[i] ELSE Stringify(Swept(c)).m[i]])
    ELSE shoppingCart

StoreAfterDisplay(c) ==
    IF Displays /\ storageOk THEN Stringify(Swept(c)) ELSE shoppingCart

\* JavaScript + and * on numbers; the factors are the price and the
\* quantity of an entry the sweep keeps, so the quantity is above 0
Plus(a, b) ==
    CASE a.t = "nan" \/ b.t = "nan" -> NaN
      [] a.t = "inf" \/ b.t = "inf" -> Inf
      [] OTHER -> Num(a.v + b.v)
Times(price, quantity) ==
    CASE price.t = "nan" \/ quantity.t = "nan" -> NaN
      [] price.t = "inf" \/ quantity.t = "inf" ->
            IF price = Num(0) THEN NaN ELSE Inf
      [] OTHER -> Num(price.v * quantity.v)

\* (mutant) the count of the entries instead of the sum of their quantities
StepOfCountOne(totals, item) ==
    IF ItemInvalid(item) THEN totals
    ELSE [totalItems |-> Plus(totals.totalItems, Num(1)),
          currentCartTotal |-> Plus(totals.currentCartTotal,
                                    Times(item.price, item.quantity))]

\* one round of productIds.forEach: an invalid item is skipped, a valid one
\* is added to the two totals
StepOf(totals, item) ==
    IF ItemInvalid(item) THEN totals
    ELSE [totalItems |-> Plus(totals.totalItems, item.quantity),
          currentCartTotal |-> Plus(totals.currentCartTotal,
                                    Times(item.price, item.quantity))]
\* the totals after forEach went through the keys ks of cart c
RECURSIVE TotalsOver(_, _)
TotalsOver(c, ks) ==
    IF ks = <<>> THEN [totalItems |-> Num(0), currentCartTotal |-> Num(0)]
    ELSE StepOf(TotalsOver(c, SubSeq(ks, 1, Len(ks) - 1)), c.m[ks[Len(ks)]])
\* Object.keys(window.cart), in an order
KeyOrder(c) ==
    CHOOSE ks \in [1..Cardinality(Keys(c)) -> Keys(c)] :
        \A i \in Keys(c) : \E k \in DOMAIN ks : ks[k] = i

\* String(n) for the count, n.toFixed(2) for the total (an amount in cents)
CountText(n) ==
    CASE n.t = "num" -> [t |-> "integer", v |-> n.v]
      [] n.t = "inf" -> InfStr
      [] OTHER -> NaNStr
TotalText(n) ==
    CASE n.t = "num" -> [t |-> "fixed2", v |-> n.v]
      [] n.t = "inf" -> InfStr
      [] OTHER -> NaNStr
\* the texts of index.html: 0 and 0.00
HtmlTexts == [count |-> CountText(Num(0)), total |-> TotalText(Num(0))]
\* the two texts after updateCartDisplay() ran on cart c
TextsAfterDisplay(c) ==
    IF Displays
    THEN LET totals == TotalsOver(c, KeyOrder(c))
         IN [count |-> CountText(totals.totalItems),
             total |-> TotalText(totals.currentCartTotal)]
    ELSE cartTexts

DomContentLoaded ==
    /\ pc = "loaded"
    /\ pc' = "run"
    /\ cart' = CartAfterDisplay(cart)
    /\ shoppingCart' = StoreAfterDisplay(cart)
    /\ cartTexts' = TextsAfterDisplay(cart)
    /\ last' = [Did("display") EXCEPT !.saved = last.saved]
    /\ UNCHANGED <<cartElems, storageOk, nAdds, firstAdd, snap>>
    /\ UNCHANGED exceptCart

-----------------------------------------------------------------------------
(* window.addToCart and the remove button of the cart list.                *)

\* (mutant) the validation without its price < 0 test
InputInvalidNoSign(productId, productName, productPrice) ==
    \/ productId = ""
    \/ ~Truthy(productName)
    \/ ~IsString(productName)
    \/ IsNaN(ParseFloat(productPrice))

\* the validation of line 753, price being parseFloat(productPrice)
InputInvalid(productId, productName, productPrice) ==
    \/ productId = ""
    \/ ~Truthy(productName)
    \/ ~IsString(productName)
    \/ IsNaN(ParseFloat(productPrice))
    \/ LtZero(ParseFloat(productPrice))

\* (mutant) a repeated add that also takes over the price of the call
WithItemRepriced(c, productId, productName, productPrice) ==
    [c EXCEPT !.m[productId] =
        IF c.m[productId].t = "obj"
        THEN [c.m[productId] EXCEPT !.quantity = Incr(@),
                                    !.price = ParseFloat(productPrice)]
        ELSE Item(productName, ParseFloat(productPrice), Num(1))]

\* lines 760-764: quantity++ on an existing item, a new item otherwise
WithItem(c, productId, productName, productPrice) ==
    [c EXCEPT !.m[productId] =
        IF c.m[productId].t = "obj"
        THEN [c.m[productId] EXCEPT !.quantity = Incr(@)]
        ELSE Item(productName, ParseFloat(productPrice), Num(1))]

\* the quantity addToCart would step is still below the bound of the model
BelowMax(c, id) ==
    id \in Ids /\ c.m[id].t = "obj" /\ c.m[id].quantity.t = "num"
        => c.m[id].quantity.v < MaxQty

\* the input is invalid as the data model has it: no id, no name or a name that is
\* no string, a price that is no number >= 0
ClaimedInvalid(productId, productName, productPrice) ==
    \/ productId = ""
    \/ productName \in {Str(0), Undef}
    \/ productName.t \notin {"str", "numstr", "infstr"}
    \/ ~ \/ (productPrice.t \in {"num", "numstr"} /\ productPrice.v >= 0)
         \/ productPrice.t \in {"inf", "infstr"}

ProductIds   == Ids \cup {""}
ProductNames == {Str(1), Str(2), Str(0), Num(7)}
ProductPrices == {NumStr(1999), Num(0), NumStr(-500), Str(1), InfStr}

AddToCart(productId, productName, productPrice) ==
    /\ pc = "run"
    /\ BelowMax(cart, productId)
    /\ IF InputInvalid(productId, productName, productPrice)
       THEN /\ last' = [Did("addToCart") EXCEPT
                            !.alert = TRUE, !.saved = last.saved,
                            !.bad = ClaimedInvalid(productId, productName, productPrice)]
            /\ UNCHANGED <<cart, shoppingCart, nAdds, firstAdd, snap, cartTexts>>
       ELSE LET c == WithItem(cart, productId, productName, productPrice)
                fresh == cart.m[productId].t = "none"
            IN /\ cart' = CartAfterDisplay(c)
               /\ shoppingCart' = StoreAfterDisplay(c)
               /\ cartTexts' = TextsAfterDisplay(c)
               /\ last' = [Did("addToCart") EXCEPT
                            !.bad = ClaimedInvalid(productId, productName, productPrice)]
               /\ snap' = EmptyCart
               /\ nAdds' = [nAdds EXCEPT ![productId] =
                               IF fresh THEN 1 ELSE IF @ > 0 THEN @ + 1 ELSE 0]
               /\ firstAdd' = [firstAdd EXCEPT ![productId] =
                               IF fresh
                               THEN [name |-> productName, price |-> productPrice]
                               ELSE @]
    /\ UNCHANGED <<pc, cartElems, storageOk>>
    /\ UNCHANGED exceptCart

\* (mutant) a removal that empties the cart
DeletedAll(c, productId) == [c EXCEPT !.m = EmptyMap]

\* delete window.cart[productId]
Deleted(c, productId) == [c EXCEPT !.m[productId] = NoItem]

\* line 1310: the delegated click listener of #cart-items-list
RemoveItem(productId) ==
    /\ pc = "run"
    /\ cartElems
    /\ IF productId # "" /\ cart.m[productId].t = "obj"
       THEN LET c == Deleted(cart, productId)
            IN /\ cart' = CartAfterDisplay(c)
               /\ shoppingCart' = StoreAfterDisplay(c)
               /\ cartTexts' = TextsAfterDisplay(c)
               /\ last' = Did("removeItem")
               /\ snap' = EmptyCart
               /\ nAdds' = [nAdds EXCEPT ![productId] = 0]
               /\ firstAdd' = [firstAdd EXCEPT ![productId] = NoAdd]
       ELSE /\ last' = [Did("removeMiss") EXCEPT !.saved = last.saved]
            /\ UNCHANGED <<cart, shoppingCart, nAdds, firstAdd, snap, cartTexts>>
    /\ UNCHANGED <<pc, cartElems, storageOk>>
    /\ UNCHANGED exceptCart

\* leaving the page: the next page runs script.js again from the stored text
Reload ==
    /\ pc = "run"
    /\ pc' = "start"
    /\ LET saved == shoppingCart = Stringify(cart)
       IN /\ snap' = IF saved THEN cart ELSE EmptyCart
          /\ last' = [Did("reload") EXCEPT !.saved = saved]
    /\ cart' = EmptyCart
    /\ cartTexts' = HtmlTexts
    /\ nAdds' = [i \in Ids |-> 0]
    /\ firstAdd' = [i \in Ids |-> NoAdd]
    /\ UNCHANGED <<shoppingCart, cartElems, storageOk>>
    /\ UNCHANGED exceptCart

-----------------------------------------------------------------------------
(* The stored texts the cart is explored from.                             *)

StoredItems ==
    { NoItem, NullItem,
      Item(Str(1), Num(1999), Num(1)),
      Item(Str(1), Num(-500), Num(1)),
      Item(Str(1), Num(500), Num(0)),
      Item(Str(1), Str(1), Num(2)),
      Item(Undef, Num(500), Str(1)) }
\* the stored mappings explored: any stored item under "p1", beside no item or
\* a valid one under "p2"
InitialStorages ==
    {Stored(k) : k \in {"absent", "garbage", "null", "num", "arr"}}
        \cup {StoredObj(m) : m \in {f \in [Ids -> StoredItems] :
                    f["p2"] \in {NoItem, Item(Str(1), Num(1999), Num(1))}}}

\* the stored texts explored when every write fails (storage full or disabled)
FullStorages ==
    { Stored("absent"), Stored("num"),
      StoredObj([i \in Ids |-> IF i = "p1" THEN Item(Str(1), Num(-500), Num(1))
                                            ELSE Item(Str(1), Num(1999), Num(1))]) }

CartStart ==
    /\ pc = "start"
    /\ cart = EmptyCart
    /\ cartElems \in BOOLEAN
    /\ storageOk \in BOOLEAN
    /\ shoppingCart \in IF storageOk THEN InitialStorages ELSE FullStorages
    /\ last = NoLast
    /\ nAdds = [i \in Ids |-> 0]
    /\ firstAdd = [i \in Ids |-> NoAdd]
    /\ snap = EmptyCart
    /\ cartTexts = HtmlTexts

\* the cart as it stands when another part of the program is explored
CartIdle ==
    /\ pc = "run"
    /\ cart = EmptyCart
    /\ cartElems = TRUE
    /\ storageOk = TRUE
    /\ shoppingCart = StoredObj(EmptyMap)
    /\ last = NoLast
    /\ nAdds = [i \in Ids |-> 0]
    /\ firstAdd = [i \in Ids |-> NoAdd]
    /\ snap = EmptyCart
    /\ cartTexts = HtmlTexts

NextCart ==
    \/ LoadCart
    \/ DomContentLoaded
    \/ \E i \in ProductIds, n \in ProductNames, p \in ProductPrices : AddToCart(i, n, p)
    \/ \E i \in ProductIds : RemoveItem(i)
    \/ Reload


-----------------------------------------------------------------------------
(* Two tabs: script.js runs in each, over the one localStorage.            *)

Tabs == {"A", "B"}
\* the add-to-cart button of a product card: data-product-name and
\* data-product-price of the product
TabProductName == Str(1)
TabProductPrice == NumStr(1999)
\* the stored texts the tabs start from
TabStorages ==
    { Stored("absent"), StoredObj(EmptyMap),
      StoredObj([i \in Ids |-> IF i = "p1" THEN Item(Str(1), Num(1999), Num(1))
                                            ELSE NoItem]) }

\* the try / catch at the top of script.js, in tab t
TabLoadCart(t) ==
    /\ tabs[t].pc = "start"
    /\ tabs' = [tabs EXCEPT ![t] = [pc |-> "loaded",
                                    cart |-> LoadedCart(shoppingCart),
                                    base |-> shoppingCart]]
    /\ shoppingCart' = IF ResetsStorage(shoppingCart) /\ storageOk
                       THEN StoredObj(EmptyMap) ELSE shoppingCart
    /\ UNCHANGED <<tabLog, pc, cart, cartElems, storageOk, last, nAdds, firstAdd, snap,
                   cartTexts>>
    /\ UNCHANGED exceptTabs

\* DOMContentLoaded in tab t: updateCartDisplay()
TabDomContentLoaded(t) ==
    /\ tabs[t].pc = "loaded"
    /\ tabs' = [tabs EXCEPT ![t].pc = "run",
                            ![t].cart = CartAfterDisplay(tabs[t].cart)]
    /\ shoppingCart' = StoreAfterDisplay(tabs[t].cart)
    /\ UNCHANGED <<tabLog, pc, cart, cartElems, storageOk, last, nAdds, firstAdd, snap,
                   cartTexts>>
    /\ UNCHANGED exceptTabs

\* click on the add-to-cart button of product id in tab t
TabAddToCart(t, id) ==
    /\ tabs[t].pc = "run"
    /\ Len(tabLog) < MaxTabAdds
    /\ BelowMax(tabs[t].cart, id)
    /\ ~InputInvalid(id, TabProductName, TabProductPrice)
    /\ LET c == WithItem(tabs[t].cart, id, TabProductName, TabProductPrice)
       IN /\ tabs' = [tabs EXCEPT ![t].cart = CartAfterDisplay(c)]
          /\ shoppingCart' = StoreAfterDisplay(c)
    /\ tabLog' = Append(tabLog, [tab |-> t, id |-> id])
    /\ UNCHANGED <<pc, cart, cartElems, storageOk, last, nAdds, firstAdd, snap,
                   cartTexts>>
    /\ UNCHANGED exceptTabs

NoTab == [pc |-> "start", cart |-> EmptyCart, base |-> Stored("absent")]
TabsIdle ==
    /\ tabs = [t \in Tabs |-> NoTab]
    /\ tabLog = <<>>
\* both tabs are about to run script.js; the single-tab variables stand still
TabsStart ==
    /\ TabsIdle
    /\ pc = "run"
    /\ cart = EmptyCart
    /\ cartElems = TRUE
    /\ storageOk = TRUE
    /\ shoppingCart \in TabStorages
    /\ last = NoLast
    /\ nAdds = [i \in Ids |-> 0]
    /\ firstAdd = [i \in Ids |-> NoAdd]
    /\ snap = EmptyCart
    /\ cartTexts = HtmlTexts
NextTabs ==
    \/ \E t \in Tabs : TabLoadCart(t)
    \/ \E t \in Tabs : TabDomContentLoaded(t)
    \/ \E t \in Tabs, id \in Ids : TabAddToCart(t, id)

-----------------------------------------------------------------------------
(* Start of the detail page: the DOMContentLoaded handler of script.js     *)
(* (non-index branch) and the one of product-detail.js.                    *)

PageElements ==
    {"script.js", "product-detail-content", "recently-viewed-slider",
     "recommended-slider", "trending-slider", "product-loading-msg",
     "product-sliders"}
NotStarted == [step |-> 0, cartDisplay |-> FALSE, commonListeners |-> FALSE,
               productLoad |-> FALSE, contentError |-> FALSE,
               slidersHidden |-> FALSE]

\* script.js, registered first: no #product-grid, so window.updateCartDisplay()
ScriptDomContentLoaded ==
    /\ pageInit.step = 0
    /\ pageInit' = [pageInit EXCEPT !.step = 1,
                                    !.cartDisplay = "script.js" \in pageElems]
    /\ UNCHANGED pageElems
    /\ UNCHANGED exceptPage

\* product-detail.js: the dependency check, the check of the two essential
\* containers, and the initial setup
DetailDomContentLoaded ==
    /\ pageInit.step = 1
    /\ IF "script.js" \notin pageElems
       THEN \* document.body.innerHTML is replaced by the error paragraph
            /\ pageInit' = [pageInit EXCEPT !.step = 2, !.contentError = TRUE]
            /\ pageElems' = {}
       ELSE IF "product-detail-content" \notin pageElems
               \/ "recently-viewed-slider" \notin pageElems
       THEN /\ pageInit' = [pageInit EXCEPT
                                !.step = 2,
                                !.contentError = "product-detail-content" \in pageElems,
                                !.slidersHidden = "product-sliders" \in pageElems]
            /\ UNCHANGED pageElems
       ELSE /\ pageInit' = [pageInit EXCEPT !.step = 2,
                                            !.cartDisplay = TRUE,
                                            !.commonListeners = TRUE,
                                            !.productLoad = TRUE]
            /\ UNCHANGED pageElems
    /\ UNCHANGED exceptPage

PageIdle ==
    /\ pageElems = PageElements
    /\ pageInit = NotStarted
PageStart ==
    /\ pageElems \in SUBSET PageElements
    /\ pageInit = NotStarted
NextPage ==
    \/ ScriptDomContentLoaded
    \/ DetailDomContentLoaded

-----------------------------------------------------------------------------
(* Recently viewed products (product-detail.js).                           *)

MAX_RECENTLY_VIEWED == 8
\* page visits explored in one session
MaxVisits == 3
\* clicks that ask for a sidebar, a modal or the zoom to open
MaxOpens == 3
\* the ids of the catalog that pages are visited for
CatalogIds == {"a", "b", "c", "d", "e", "f", "g", "h", "i"}

\* The text stored under 'recentlyViewedProducts': "absent" (getItem gives
\* null), "garbage" (JSON.parse throws), "nonarray" (JSON that is no Array: an
\* object, a number, a string, null) or "arr" with the ids it lists.
RvText(k)  == [k |-> k, ids |-> <<>>]
RvArray(l) == [k |-> "arr", ids |-> l]

\* (mutant) a read whose try / catch is missing: the unparsable text gets out
GetRecentlyViewedIdsNoCatch(s) ==
    IF s.k = "absent" THEN RvArray(<<>>) ELSE s

\* getRecentlyViewedIds(): [] for a missing key and for a parse failure;
\* anything that parses is returned as it is
GetRecentlyViewedIds(s) ==
    IF s.k \in {"absent", "garbage"} THEN RvArray(<<>>) ELSE s

\* ids.filter(id => id !== productId)
RECURSIVE Without(_, _)
Without(l, x) ==
    IF l = <<>> THEN <<>>
    ELSE IF Head(l) = x THEN Without(Tail(l), x)
    ELSE <<Head(l)>> \o Without(Tail(l), x)

\* ids.slice(0, n)
Slice(l, n) == IF Len(l) <= n THEN l ELSE SubSeq(l, 1, n)

\* (mutant) the list without the slice to MAX_RECENTLY_VIEWED
RecordedNoSlice(l, productId) == <<productId>> \o Without(l, productId)

\* the list addRecentlyViewedId stores: unshift after the filter, then slice
Recorded(l, productId) ==
    Slice(<<productId>> \o Without(l, productId), MAX_RECENTLY_VIEWED)

\* the stored text after addRecentlyViewedId(productId): nothing is done for a
\* missing id; .filter on a value that is no Array throws a TypeError, which
\* the catch block logs, and nothing is stored
AfterRecord(s, productId) ==
    IF productId = "" THEN s
    ELSE IF GetRecentlyViewedIds(s).k # "arr" THEN s
    ELSE RvArray(Recorded(GetRecentlyViewedIds(s).ids, productId))

\* the ids a stored text lists
RvIds(s) == {s.ids[k] : k \in 1..Len(s.ids)}

NoVisit == [id |-> "", ok |-> FALSE, n |-> 0, from |-> "none", had |-> FALSE]

\* loadProductData(): ok is the fetch giving the product list.  The product
\* is shown, its id recorded, and the slider filled from the stored ids
\* without the current one; the .filter of line 442 on a value that is no
\* Array throws into the catch block, which replaces the page by an error.
\* lastVisit keeps, of the visit: the product shown, the kind of text that
\* was stored before it and whether that text listed the product.
LoadProductData(productIdFromUrl, ok) ==
    LET s1 == AfterRecord(recentlyViewed, productIdFromUrl)
        found == ok /\ productIdFromUrl \in CatalogIds
        listed == GetRecentlyViewedIds(s1)
    IN /\ lastVisit.n < MaxVisits
       /\ lastVisit' = [id |-> IF found THEN productIdFromUrl ELSE "",
                        ok |-> found,
                        n |-> lastVisit.n + 1,
                        from |-> recentlyViewed.k,
                        had |-> productIdFromUrl \in RvIds(recentlyViewed)]
       /\ IF ~found
          THEN /\ detailView' = "error"
               /\ rvSlider' = "hidden"
               /\ UNCHANGED recentlyViewed
          ELSE /\ recentlyViewed' = s1
               /\ IF listed.k # "arr"
                  THEN detailView' = "error" /\ rvSlider' = "hidden"
                  ELSE /\ detailView' = "product"
                       /\ rvSlider' = IF Without(listed.ids, productIdFromUrl) = <<>>
                                      THEN "empty" ELSE "cards"
       /\ UNCHANGED exceptRecent

\* The texts a session is explored from: no key, a text that does not parse,
\* JSON that is no Array, and the list that recording a, b, .. g in this
\* order from no key has stored, one short of the cap.
SevenViewed == <<"g", "f", "e", "d", "c", "b", "a">>
RecentStart ==
    /\ recentlyViewed \in {RvText("absent"), RvText("garbage"),
                           RvText("nonarray"), RvArray(SevenViewed)}
    /\ detailView = "loading"
    /\ rvSlider = "none"
    /\ lastVisit = NoVisit

RecentIdle ==
    /\ recentlyViewed = RvText("absent")
    /\ detailView = "loading"
    /\ rvSlider = "none"
    /\ lastVisit = NoVisit

NextRecent ==
    \E id \in CatalogIds \cup {"", "zz"}, ok \in BOOLEAN : LoadProductData(id, ok)

-----------------------------------------------------------------------------
(* Overlays, sidebars and modals (script.js UI helpers).  The helpers call *)
(* one another, so each is an operator from the state o it is given to the *)
(* state it leaves: o = [visible, noScroll, lastFocusedElement,            *)
(* activeElement, timers].                                                 *)

Sidebars == {"mobileNav", "cartSidebar", "filterSidebar"}
Modals   == {"productModal", "authModal"}
Overlays == {"overlay", "modalOverlay", "authModalOverlay", "zoomOverlay"}

\* the toggle button of a sidebar and the first focusable element inside it
TriggerOf == [mobileNav |-> "mobileMenuToggle", cartSidebar |-> "cartToggle",
              filterSidebar |-> "mobileFilterToggle"]
FirstFocusable == [mobileNav |-> "closeNavBtn", cartSidebar |-> "closeCartBtn",
                   filterSidebar |-> "closeFiltersBtn"]
\* focus() moves the focus to el: not for <body>, not for an <img>
Focusable(el) == el \notin {"null", "body", "modalMainImg", "overlayDiv"}

UI == [visible |-> visible, noScroll |-> noScroll,
       lastFocusedElement |-> lastFocusedElement,
       activeElement |-> activeElement, timers |-> timers,
       recorded |-> recorded]

\* setTimeout(callback, delay)
SetTimeout(o, kind, delay, el) ==
    [o EXCEPT !.timers = Append(@, [kind |-> kind, delay |-> delay, el |-> el])]

UpdateBodyScroll(o) ==
    [o EXCEPT !.noScroll = (o.visible \cap Overlays # {})]

OpenOverlay(o, specificOverlay) ==
    IF specificOverlay \in o.visible THEN o
    ELSE UpdateBodyScroll([o EXCEPT !.lastFocusedElement = o.activeElement,
                                    !.recorded[specificOverlay] = o.activeElement,
                                    !.visible = @ \cup {specificOverlay}])

\* the callback of its 50 ms timer is RestoreFires below; the timer keeps,
\* as rec, what openOverlay had recorded for the overlay
CloseOverlay(o, specificOverlay, restoreFocusTo) ==
    IF specificOverlay \notin o.visible THEN o
    ELSE [o EXCEPT !.visible = @ \ {specificOverlay},
                   !.recorded[specificOverlay] = "null",
                   !.timers = Append(@, [kind |-> "restore", delay |-> 50,
                                         el |-> restoreFocusTo,
                                         rec |-> o.recorded[specificOverlay]])]

\* (mutant) closes the overlay whether or not the sidebar is shown
CloseSidebarAlways(o, sidebar) ==
    CloseOverlay([o EXCEPT !.visible = @ \ {sidebar}], "overlay",
                 TriggerOf[sidebar])

CloseSidebar(o, sidebar) ==
    IF sidebar \notin o.visible THEN o
    ELSE CloseOverlay([o EXCEPT !.visible = @ \ {sidebar}], "overlay",
                      TriggerOf[sidebar])

CloseAllSidebars(o) ==
    CloseSidebar(CloseSidebar(CloseSidebar(o, "mobileNav"), "cartSidebar"),
                 "filterSidebar")

CloseProductModal(o) ==
    IF "productModal" \notin o.visible THEN o
    ELSE [CloseOverlay(o, "modalOverlay", o.lastFocusedElement)
            EXCEPT !.visible = @ \ {"productModal"}]

CloseAuthModal(o) ==
    IF "authModal" \notin o.visible THEN o
    ELSE [CloseOverlay(o, "authModalOverlay", o.lastFocusedElement)
            EXCEPT !.visible = @ \ {"authModal"}]

CloseZoom(o) ==
    IF "zoomOverlay" \notin o.visible THEN o
    ELSE CloseOverlay(o, "zoomOverlay", o.lastFocusedElement)

\* closes the top-most popup only
CloseAllPopups(o) ==
    IF "zoomOverlay" \in o.visible THEN CloseZoom(o)
    ELSE IF "authModal" \in o.visible THEN CloseAuthModal(o)
    ELSE IF "productModal" \in o.visible THEN CloseProductModal(o)
    ELSE IF "overlay" \in o.visible THEN CloseAllSidebars(o)
    ELSE o

OpenSidebar(o, sidebar) ==
    IF sidebar \in o.visible THEN o
    ELSE LET o1 == CloseAllPopups(o)
             o2 == OpenOverlay([o1 EXCEPT !.visible = @ \cup {sidebar}], "overlay")
         IN SetTimeout(o2, "focus", 310, FirstFocusable[sidebar])

\* window.openZoom: the call of closeAllPopups is commented out
OpenZoom(o) ==
    SetTimeout(OpenOverlay(o, "zoomOverlay"), "focus", 100, "closeZoomBtn")

OpenProductModal(o) ==
    LET o1 == CloseAllPopups(o)
        o2 == OpenOverlay([o1 EXCEPT !.visible = @ \cup {"productModal"}],
                          "modalOverlay")
    IN SetTimeout(o2, "focus", 310, "closeModalBtn")

\* openAuthModal: the modal is shown by the callback of a 50 ms timer
OpenAuthModal(o) ==
    IF "authModal" \in o.visible THEN o
    ELSE SetTimeout(CloseAllPopups(o), "authOpen", 50, "null")

\* that callback: showLoginForm / showSignupForm (which set a 50 ms timer
\* for the first input of the form), openOverlay, the modal, and a 100 ms
\* timer for the close button
AuthOpenCallback(o) ==
    IF "authModal" \in o.visible THEN o
    ELSE LET o1 == SetTimeout(o, "focus", 50, "authFormInput")
             o2 == OpenOverlay(o1, "authModalOverlay")
         IN SetTimeout([o2 EXCEPT !.visible = @ \cup {"authModal"}],
                       "focus", 100, "closeAuthModalBtn")

\* the callback of closeOverlay's timer
RestoreCallback(o, restoreFocusTo) ==
    LET elementToFocus == IF restoreFocusTo # "null" THEN restoreFocusTo
                          ELSE o.lastFocusedElement
        o1 == IF Focusable(elementToFocus)
              THEN [o EXCEPT !.activeElement = elementToFocus] ELSE o
    IN UpdateBodyScroll([o1 EXCEPT !.lastFocusedElement = "null"])

\* A click lands on el: a button takes the focus, anything else leaves it
\* with <body>.
Click(o, el) ==
    [o EXCEPT !.activeElement = IF Focusable(el) THEN el ELSE "body"]

\* the state o is the state of the page
Becomes(o) ==
    /\ visible' = o.visible
    /\ noScroll' = o.noScroll
    /\ lastFocusedElement' = o.lastFocusedElement
    /\ activeElement' = o.activeElement
    /\ timers' = o.timers
    /\ recorded' = o.recorded
\* the handler leaves the state o
Leaves(o) == Becomes(o) /\ lastUi' = "other"

\* The timer at position k may fire: no timer set before it is due earlier
\* or at the same time.
Due(k) ==
    /\ k \in 1..Len(timers)
    /\ \A j \in 1..(k - 1) : timers[j].delay > timers[k].delay
Removed(k) == SubSeq(timers, 1, k - 1) \o SubSeq(timers, k + 1, Len(timers))

\* click on a sidebar's toggle button; the filter toggle is disabled with
\* the filters
ToggleClick(sidebar) ==
    /\ sidebar = "filterSidebar" => ~filtersDisabled
    /\ IF sidebar \in visible
       THEN /\ Leaves(CloseSidebar(Click(UI, TriggerOf[sidebar]), sidebar))
            /\ UNCHANGED opens
       ELSE /\ opens < MaxOpens
            /\ opens' = opens + 1
            /\ Leaves(OpenSidebar(Click(UI, TriggerOf[sidebar]), sidebar))
    /\ UNCHANGED exceptOverlay

\* click on the close button of a sidebar (the buttons and overlays below
\* are clicked while they are shown)
CloseButtonClick(sidebar) ==
    /\ sidebar \in visible
    /\ Leaves(CloseSidebar(Click(UI, FirstFocusable[sidebar]), sidebar))
    /\ UNCHANGED <<opens, exceptOverlay>>

\* click on #overlay
OverlayClick ==
    /\ "overlay" \in visible
    /\ Leaves(CloseAllSidebars(Click(UI, "overlayDiv")))
    /\ UNCHANGED <<opens, exceptOverlay>>

\* click on the view button of a card
ViewButtonClick ==
    /\ opens < MaxOpens
    /\ opens' = opens + 1
    /\ cards # <<>>
    /\ Leaves(OpenProductModal([Click(UI, "viewButton")
                                  EXCEPT !.lastFocusedElement = "viewButton"]))
    /\ UNCHANGED exceptOverlay

\* click on the close button of the quick view (by = "closeModalBtn") or on
\* its overlay
ProductModalCloseClick(by) ==
    /\ (IF by = "overlayDiv" THEN "modalOverlay" ELSE "productModal") \in visible
    /\ Leaves(CloseProductModal(Click(UI, by)))
    /\ UNCHANGED <<opens, exceptOverlay>>

\* click on the main image of the quick view, the image being zoomable
ModalImageClick ==
    /\ "productModal" \in visible
    /\ opens < MaxOpens
    /\ opens' = opens + 1
    /\ Leaves(OpenZoom([Click(UI, "modalMainImg")
                          EXCEPT !.lastFocusedElement = "modalMainImg"]))
    /\ UNCHANGED exceptOverlay

\* click on the close button of the zoom or on the zoom overlay
ZoomCloseClick(by) ==
    /\ "zoomOverlay" \in visible
    /\ Leaves(CloseZoom(Click(UI, by)))
    /\ UNCHANGED <<opens, exceptOverlay>>

\* click on an .auth-trigger: with the mobile menu open, the menu is closed
\* and openAuthModal is called from a 50 ms timer
AuthTriggerClick ==
    /\ opens < MaxOpens
    /\ opens' = opens + 1
    /\ IF "mobileNav" \in visible
       THEN Leaves(SetTimeout(CloseSidebar(Click(UI, "authTrigger"), "mobileNav"),
                              "authCall", 50, "null"))
       ELSE Leaves(OpenAuthModal(Click(UI, "authTrigger")))
    /\ UNCHANGED exceptOverlay

\* click on the close button of the auth modal or on its overlay
AuthModalCloseClick(by) ==
    /\ (IF by = "overlayDiv" THEN "authModalOverlay" ELSE "authModal") \in visible
    /\ Leaves(CloseAuthModal(Click(UI, by)))
    /\ UNCHANGED <<opens, exceptOverlay>>

\* the popups that have a close control, the control, and the function its
\* listener calls
Closable == Sidebars \cup {"productModal", "authModal", "zoomOverlay"}
CloseControl(x) ==
    IF x \in Sidebars THEN FirstFocusable[x]
    ELSE IF x = "productModal" THEN "closeModalBtn"
    ELSE IF x = "authModal" THEN "closeAuthModalBtn"
    ELSE "closeZoomBtn"
Close(o, x) ==
    IF x \in Sidebars THEN CloseSidebar(o, x)
    ELSE IF x = "productModal" THEN CloseProductModal(o)
    ELSE IF x = "authModal" THEN CloseAuthModal(o)
    ELSE CloseZoom(o)

\* the second click of a double click on the close control of x: the
\* control has the focus from the first click, x is closed already and a
\* closing transition is still running (a restore timer is pending)
ClosedAgainClick(x) ==
    /\ x \notin visible
    /\ activeElement = CloseControl(x)
    /\ \E k \in 1..Len(timers) : timers[k].kind = "restore"
    /\ Becomes(Close(Click(UI, CloseControl(x)), x))
    /\ lastUi' = "closedAgain"
    /\ UNCHANGED <<opens, exceptOverlay>>

\* keydown Escape
Escape ==
    /\ Becomes(CloseAllPopups(UI))
    /\ lastUi' = "escape"
    /\ UNCHANGED <<opens, exceptOverlay>>

\* the timer callbacks
RestoreFires(k) ==
    /\ Due(k) /\ timers[k].kind = "restore"
    /\ Leaves(RestoreCallback([UI EXCEPT !.timers = Removed(k)], timers[k].el))
    /\ UNCHANGED <<opens, exceptOverlay>>
FocusFires(k) ==
    /\ Due(k) /\ timers[k].kind = "focus"
    /\ Leaves([UI EXCEPT !.timers = Removed(k), !.activeElement = timers[k].el])
    /\ UNCHANGED <<opens, exceptOverlay>>
AuthCallFires(k) ==
    /\ Due(k) /\ timers[k].kind = "authCall"
    /\ Leaves(OpenAuthModal([UI EXCEPT !.timers = Removed(k)]))
    /\ UNCHANGED <<opens, exceptOverlay>>
AuthOpenFires(k) ==
    /\ Due(k) /\ timers[k].kind = "authOpen"
    /\ Leaves(AuthOpenCallback([UI EXCEPT !.timers = Removed(k)]))
    /\ UNCHANGED <<opens, exceptOverlay>>

OverlayStart ==
    /\ visible = {}
    /\ noScroll = FALSE
    /\ lastFocusedElement = "null"
    /\ activeElement = "body"
    /\ timers = <<>>
    /\ opens = 0
    /\ recorded = [x \in Overlays |-> "null"]
    /\ lastUi = "other"

OverlayIdle == OverlayStart

-----------------------------------------------------------------------------
(* Strings of the catalog and of the filter inputs: sequences of           *)
(* characters, so that toLowerCase, trim and includes do what they do.     *)

LowerOf == [A |-> "a", B |-> "b", E |-> "e", H |-> "h", L |-> "l", M |-> "m"]
ToLowerCase(s) ==
    [k \in 1..Len(s) |-> IF s[k] \in DOMAIN LowerOf THEN LowerOf[s[k]] ELSE s[k]]
RECURSIVE TrimStart(_)
TrimStart(s) ==
    IF s # <<>> /\ Head(s) = " " THEN TrimStart(Tail(s)) ELSE s
RECURSIVE TrimEnd(_)
TrimEnd(s) ==
    IF s # <<>> /\ s[Len(s)] = " " THEN TrimEnd(SubSeq(s, 1, Len(s) - 1)) ELSE s
Trim(s) == TrimEnd(TrimStart(s))
\* s.includes(sub)
Includes(s, sub) ==
    \E k \in 1..(Len(s) - Len(sub) + 1) : SubSeq(s, k, k + Len(sub) - 1) = sub

\* a property of a product that is a string, or that the JSON leaves out
Text(s) == [t |-> "str", s |-> s]
NoText  == [t |-> "undef", s |-> <<>>]
\* product.x && product.x.toLowerCase() ...: the string is there and not ""
HasText(x) == x.t = "str" /\ x.s # <<>>

-----------------------------------------------------------------------------
(* window.calculateDiscountedPrice, in cents.                              *)

NoDiscount == [type |-> "none", value |-> 0]
Percent(v) == [type |-> "percent", value |-> v]
Fixed(c)   == [type |-> "fixed", value |-> c]

\* discountText: null, `${value}% off` or `-$${value.toFixed(2)}`
NoDiscountText == [kind |-> "null", value |-> 0]
PercentText(v) == [kind |-> "percentOff", value |-> v]
FixedText(c)   == [kind |-> "minusDollars", value |-> c]

\* Number.prototype.toFixed(2) and parseFloat of it, for an amount counted in
\* units of which `scale` make a cent: the nearest whole cent. An amount
\* that is half a cent in decimal is a binary fraction just above or just
\* below the half (0.025 gives "0.03", 0.575 gives "0.57"): `up` says which.
ToFixed2(n, scale, up) ==
    ((2 * n + scale - (IF up THEN 0 ELSE 1)) \div (2 * scale)) * scale

\* (mutant) price * (1 - value / 100) cut to a whole unit, not rounded to
\* the nearest cent
PercentOffCut(p, v, scale, up) == (p * (100 - v)) \div 100

\* finalPrice.toFixed(2) of price * (1 - value / 100): the nearest cent
PercentOff(p, v, scale, up) ==
    ((2 * p * (100 - v) + 100 * scale - (IF up THEN 0 ELSE 1)) \div (200 * scale)) * scale
\* Math.max(0, price - discount.value)
FixedOff(p, c) == IF p - c < 0 THEN 0 ELSE p - c

\* the result for a price that is a finite number >= 0, in units of which
\* `scale` make a cent
CalculateFinite(p, discount, scale, up) ==
    LET applies == discount.value > 0
        percent == applies /\ discount.type = "percent" /\ discount.value <= 100
        fixed == applies /\ ~percent /\ discount.type = "fixed"
        f == IF percent THEN PercentOff(p, discount.value, scale, up)
             ELSE IF fixed /\ FixedOff(p, discount.value) < p
             THEN ToFixed2(FixedOff(p, discount.value), scale, up)
             ELSE ToFixed2(p, scale, up)
        text == IF percent THEN PercentText(discount.value)
                ELSE IF fixed /\ FixedOff(p, discount.value) < p
                THEN FixedText(discount.value) ELSE NoDiscountText
    IN IF f >= p
       THEN [finalPrice |-> Num(p), discountText |-> NoDiscountText,
             originalPrice |-> Num(ToFixed2(p, scale, up)), hasDiscount |-> FALSE]
       ELSE [finalPrice |-> Num(f), discountText |-> text,
             originalPrice |-> Num(ToFixed2(p, scale, up)),
             hasDiscount |-> percent \/ fixed]

\* window.calculateDiscountedPrice. Infinity is a number >= 0: Infinity
\* times (1 - 100 / 100) is NaN, which toFixed and parseFloat keep and which
\* is not >= price; every other discount leaves Infinity, which is reset.
CalculateDiscountedPrice(price, discount, scale, up) ==
    IF ~IsNumber(price) \/ IsNaN(price) \/ LtZero(price)
    THEN [finalPrice |-> price, discountText |-> NoDiscountText,
          originalPrice |-> price, hasDiscount |-> FALSE]
    ELSE IF price.t = "inf"
    THEN IF discount.type = "percent" /\ discount.value = 100
         THEN [finalPrice |-> NaN, discountText |-> PercentText(100),
               originalPrice |-> Inf, hasDiscount |-> TRUE]
         ELSE [finalPrice |-> Inf, discountText |-> NoDiscountText,
               originalPrice |-> Inf, hasDiscount |-> FALSE]
    ELSE CalculateFinite(price.v, discount, scale, up)

\* the finalPrice of the result, for a price in cents (no product of the
\* catalogs below has a discounted price that ends on half a cent)
FinalPrice(price, discount) ==
    CalculateDiscountedPrice(price, discount, 1, TRUE).finalPrice

\* a call on its own, amounts in tenths of a cent
UnitsPerCent == 10
NoResult == [finalPrice |-> Undef, discountText |-> NoDiscountText,
             originalPrice |-> Undef, hasDiscount |-> FALSE]
\* 0 to 0.024, 0.10, 1.15, 19.99, 100 and values that are no price
PriceInputs ==
    {Num(n) : n \in 0..MaxPrice} \cup {Num(100), Num(1150), Num(19990), Num(100000)}
    \cup {Num(-10), Inf, NaN, NumStr(1000), Null}
\* absent, percent and fixed with positive values, and descriptors that are
\* ignored: value 0, percent above 100, another type
DiscountInputs ==
    {NoDiscount} \cup {Percent(v) : v \in {1, 10, 50, 99, 100, 101, 0}}
    \cup {Fixed(c) : c \in {1, 4, 10, 1000, 200000}}
    \cup {[type |-> "voucher", value |-> 10]}

CalculateCall ==
    /\ calcResult = NoResult
    /\ \E up \in BOOLEAN :
          calcResult' = CalculateDiscountedPrice(calcPrice, calcDiscount,
                                                 UnitsPerCent, up)
    /\ UNCHANGED <<calcPrice, calcDiscount>>
    /\ UNCHANGED exceptPrice

PriceStart ==
    /\ calcPrice \in PriceInputs
    /\ calcDiscount \in DiscountInputs
    /\ calcResult = NoResult
PriceIdle ==
    /\ calcPrice = Num(0)
    /\ calcDiscount = NoDiscount
    /\ calcResult = NoResult
NextPrice == CalculateCall

-----------------------------------------------------------------------------
(* The product grid and its filter (script.js, index page).                *)

Product(id, name, category, brand, price, discount) ==
    [id |-> id, name |-> name, category |-> category, brand |-> brand,
     price |-> price, discount |-> discount]

\* products.json as the server may give it: ids are unique
Catalog1 ==
    << Product("p1", Text(<<"L","a","p">>), Text(<<"E","l">>), Text(<<"b","a">>),
               Num(109900), NoDiscount),
       Product("p2", Text(<<"M","u","g">>), Text(<<"H">>), NoText,
               Num(1500), Fixed(500)),
       Product("p3", Text(<<"l","a","m","p">>), Text(<<"e","l">>), Text(<<"B","A">>),
               Num(2000), Percent(10)),
       Product("p4", Text(<<"M","a","p">>), NoText, Text(<<"B","b">>),
               Num(2500), NoDiscount),
       Product("p5", Text(<<"L","a","p">>), Text(<<"e","l">>), Text(<<"b","a">>),
               NumStr(2500), NoDiscount) >>
Catalog2 ==
    << Product("q1", Text(<<"M","a","p">>), Text(<<"h">>), Text(<<"b","b">>),
               Num(-500), NoDiscount),
       Product("q2", Text(<<"m","u","g">>), NoText, NoText, Null, NoDiscount) >>
Catalog3 ==
    << Product("r1", NoText, NoText, NoText, Num(100), NoDiscount) >>
Catalogs == {Catalog1, Catalog2, Catalog3, <<>>}

\* what the user types, clicks and drags to
SearchTexts == {<<>>, <<" ">>, <<"L","A">>, <<" ","m","a"," ">>, <<"u","g","x">>}
CategoryItems == {<<>>, <<"e","l">>, <<"h">>}        \* data-category
BrandValues == {<<"B","a">>, <<"B","b">>}            \* checkbox values
DragTargets == {0, 20, 1200}                         \* dollars

\* createProductCardHTML gives a card for this product
HasCard(p) == p.name.t = "str" /\ IsNumber(p.price)
RECURSIVE CardsOf(_)
CardsOf(products) ==
    IF products = <<>> THEN <<>>
    ELSE (IF HasCard(Head(products))
          THEN <<[id |-> Head(products).id, display |-> ""]>> ELSE <<>>)
         \o CardsOf(Tail(products))

\* window.allProductsData.find(p => p.id === productId)
Found(id) == \E k \in 1..Len(allProductsData) : allProductsData[k].id = id
Find(id) ==
    allProductsData[CHOOSE k \in 1..Len(allProductsData) :
        /\ allProductsData[k].id = id
        /\ \A j \in 1..(k - 1) : allProductsData[j].id # id]

\* An <input type="range" step="10">: the value it holds after target is
\* assigned or dragged to: clamped to [min, max], then moved to the nearest
\* min + 10 k that is not above max.
Step == 10
Sanitized(min, max, target) ==
    LET c == IF target < min \/ max < min THEN min
             ELSE IF target > max THEN max ELSE target
        n == min + ((c - min + Step \div 2) \div Step) * Step
    IN IF n > max /\ n - Step >= min THEN n - Step ELSE n
Slider(min, max, target) ==
    [min |-> min, max |-> max, value |-> Sanitized(min, max, target)]
\* the sliders as index.html has them
DefaultMin == Slider(0, 1200, 0)
DefaultMax == Slider(0, 1200, 1200)

\* updateFilterInputsFromData: the base prices that are numbers >= 0
RECURSIVE ValidPrices(_)
ValidPrices(products) ==
    IF products = <<>> THEN {}
    ELSE (IF Head(products).price.t = "num" /\ Head(products).price.v >= 0
          THEN {Head(products).price.v} ELSE {})
         \cup ValidPrices(Tail(products))
Min(S) == CHOOSE x \in S : \A y \in S : x <= y
Max(S) == CHOOSE x \in S : \A y \in S : x >= y
Floor(c) == c \div 100
Ceil(c)  == (c + 99) \div 100
\* finalMin and finalMax
SliderMin(products) == Min({Floor(Min(ValidPrices(products))), Ceil(Max(ValidPrices(products)))})
SliderMax(products) == Max({Floor(Min(ValidPrices(products))), Ceil(Max(ValidPrices(products)))})

\* the four tests of applyAllFilters
NameMatches(product, searchTerm) ==
    searchTerm = <<>>
    \/ (HasText(product.name) /\ Includes(ToLowerCase(product.name.s), searchTerm))
CategoryMatches(product, category) ==
    category = <<>>
    \/ (HasText(product.category) /\ ToLowerCase(product.category.s) = category)
\* (mutant) the price test with the ends of the range left out
PriceMatchesExclusive(finalPrice, min, max) ==
    finalPrice.t = "num" /\ finalPrice.v > min * 100 /\ finalPrice.v < max * 100
PriceMatches(finalPrice, min, max) ==
    finalPrice.t = "num" /\ finalPrice.v >= min * 100 /\ finalPrice.v <= max * 100
BrandMatches(product, selectedBrands) ==
    selectedBrands = {}
    \/ (HasText(product.brand) /\ ToLowerCase(product.brand.s) \in selectedBrands)

\* isVisible of a card, for the inputs as applyAllFilters reads them
IsVisible(id, search, category, min, max, brands) ==
    /\ Found(id)
    /\ NameMatches(Find(id), Trim(ToLowerCase(search)))
    /\ CategoryMatches(Find(id), category)
    /\ PriceMatches(FinalPrice(Find(id).price, Find(id).discount), min, max)
    /\ BrandMatches(Find(id), {ToLowerCase(b) : b \in brands})

NoResultsKinds == {"noProducts", "noValid", "noMatches"}  \* .no-products-message

\* (mutant) a displayMessage that keeps the paragraph already there
DisplayMessageKeeping(msgs, kind) == msgs \o <<kind>>

\* displayMessage on the grid, whose message paragraphs are msgs in document
\* order: the first paragraph of the three message classes is removed (every
\* message paragraph has one of them) and the new one is appended
DisplayMessage(msgs, kind) ==
    (IF msgs = <<>> THEN <<>> ELSE Tail(msgs)) \o <<kind>>

\* querySelector('.no-products-message') and remove(): the first such
\* paragraph is taken out
WithoutNoResults(msgs) ==
    IF \E k \in 1..Len(msgs) : msgs[k] \in NoResultsKinds
    THEN LET first == CHOOSE k \in 1..Len(msgs) :
                         /\ msgs[k] \in NoResultsKinds
                         /\ \A j \in 1..(k - 1) : msgs[j] \notin NoResultsKinds
         IN [j \in 1..(Len(msgs) - 1) |-> IF j < first THEN msgs[j] ELSE msgs[j + 1]]
    ELSE msgs

\* (mutant) a filter that never shows again a card it has hidden
ShownCardsNarrowing(cs, search, category, min, max, brands) ==
    [k \in 1..Len(cs) |->
        [cs[k] EXCEPT !.display =
            IF cs[k].display # "none"
               /\ IsVisible(cs[k].id, search, category, min, max, brands)
            THEN "flex" ELSE "none"]]

\* the forEach of applyAllFilters: every card's display is set from the four
\* tests of its product, whatever it was before
ShownCards(cs, search, category, min, max, brands) ==
    [k \in 1..Len(cs) |->
        [cs[k] EXCEPT !.display =
            IF IsVisible(cs[k].id, search, category, min, max, brands)
            THEN "flex" ELSE "none"]]

\* applyAllFilters, the inputs having the given values
ApplyAllFilters(search, category, min, max, brands) ==
    LET shown == ShownCards(cards, search, category, min, max, brands)
        cleared == WithoutNoResults(gridMessage)
    IN IF isLoading
       THEN UNCHANGED <<cards, gridMessage, applied>>
       ELSE IF allProductsData = <<>> /\ cards = <<>>
       THEN cards' = cards /\ gridMessage' = cleared /\ applied' = TRUE
       ELSE /\ cards' = shown
            /\ applied' = TRUE
            /\ gridMessage' =
                 IF (\A k \in 1..Len(shown) : shown[k].display = "none")
                    /\ allProductsData # <<>>
                 THEN DisplayMessage(cleared, "noMatches") ELSE cleared

\* the listeners of the index page are attached (DOMContentLoaded has run)
Listening == fetched # "no"

\* (mutant) fetchProducts without its guard
StartsAlways(loading) == TRUE

\* if (isLoading) return;
Starts(loading) == ~loading

\* fetchProducts(): the call made by DOMContentLoaded on the index page, or
\* a call made while that request is out (the scripts make none; it meets
\* the guard)
FetchProducts ==
    /\ requests.inFlight + requests.refused < MaxCalls
    /\ fetched = "no" \/ isLoading
    /\ IF Starts(isLoading)
       THEN /\ isLoading' = TRUE
            /\ fetched' = "inflight"
            /\ requests' = [requests EXCEPT !.inFlight = @ + 1]
            /\ gridMessage' = DisplayMessage(gridMessage, "loading")
            /\ filtersDisabled' = TRUE
       ELSE /\ requests' = [requests EXCEPT !.refused = @ + 1]
            /\ UNCHANGED <<isLoading, fetched, gridMessage, filtersDisabled>>
    /\ UNCHANGED <<allProductsData, cards, searchBar, searchTimer, burst, selectedCategory,
                   minPriceSlider, maxPriceSlider, brandList, applied>>
    /\ UNCHANGED exceptFilter

\* The response arrives with an Array: renderProducts(products), whose last
\* step, applyAllFilters(), returns at once because isLoading is still set;
\* then the finally block.
FetchGivesProducts(products) ==
    /\ fetched = "inflight"
    /\ fetched' = "done"
    /\ requests' = [inFlight |-> requests.inFlight - 1, refused |-> 0]
    /\ isLoading' = FALSE
    /\ allProductsData' = products
    /\ cards' = CardsOf(products)
    /\ gridMessage' = IF products = <<>> THEN DisplayMessage(<<>>, "noProducts")
                      ELSE IF CardsOf(products) = <<>>
                      THEN DisplayMessage(<<>>, "noValid") ELSE <<>>
    /\ filtersDisabled' = (CardsOf(products) = <<>>)
    /\ IF CardsOf(products) # <<>> /\ ValidPrices(products) # {}
       THEN /\ minPriceSlider' = Slider(SliderMin(products), SliderMax(products),
                                        SliderMin(products))
            /\ maxPriceSlider' = Slider(SliderMin(products), SliderMax(products),
                                        SliderMax(products))
       ELSE UNCHANGED <<minPriceSlider, maxPriceSlider>>
    /\ applied' = FALSE
    /\ UNCHANGED <<searchBar, searchTimer, burst, selectedCategory, brandList>>
    /\ UNCHANGED exceptFilter

\* the ways the request can fail; the last is a JSON text that is no Array
FailureKinds == {"network", "status", "syntax", "notArray"}

\* (mutant) a catch block that stops after renderProducts([])
AfterFailureUnreported(why) == DisplayMessage(<<>>, "noProducts")

\* the message paragraphs of the grid after a failure: the catch block runs
\* renderProducts([]), which empties the grid and shows 'No products
\* available', and then displayMessage with the error text; renderProducts
\* given something that is no Array empties the grid and shows the error
AfterFailure(why) ==
    IF why = "notArray" THEN DisplayMessage(<<>>, "error")
    ELSE DisplayMessage(DisplayMessage(<<>>, "noProducts"), "error")

\* The request fails. Network, HTTP status, JSON syntax: the catch block runs
\* renderProducts([]) and puts the error message over its message. A
\* response that is no Array: renderProducts itself shows the error message.
\* Then the finally block.
FetchFails(why) ==
    /\ fetched = "inflight"
    /\ fetched' = "failed"
    /\ requests' = [inFlight |-> requests.inFlight - 1, refused |-> 0]
    /\ isLoading' = FALSE
    /\ allProductsData' = <<>>
    /\ cards' = <<>>
    /\ gridMessage' = AfterFailure(why)
    /\ filtersDisabled' = TRUE
    /\ applied' = FALSE
    /\ UNCHANGED <<searchBar, searchTimer, burst, selectedCategory, minPriceSlider,
                   maxPriceSlider, brandList>>
    /\ UNCHANGED exceptFilter

DEBOUNCE_DELAY == 350
\* (mutant) a debounce without its clearTimeout
DebouncedKeeping(ts) == ts \o <<DEBOUNCE_DELAY>>

\* debounce(func, delay): the function returned clears the timer it set
\* last and sets a new one
Debounced(ts) == <<DEBOUNCE_DELAY>>

\* the events of a burst are counted up to MaxBurst, the runs up to 2
NoBurst == [events |-> 0, runs |-> 0, sinceInput |-> 0]
Counted(n, most) == IF n < most THEN n + 1 ELSE most

\* 'input' on the search bar: debouncedApplyFilters restarts its timer
SearchInput(text) ==
    /\ Listening /\ ~filtersDisabled
    /\ text # searchBar
    /\ searchBar' = text
    /\ searchTimer' = Debounced(searchTimer)
    /\ burst' = IF searchTimer = <<>>
                THEN [events |-> 1, runs |-> 0, sinceInput |-> 0]
                ELSE [burst EXCEPT !.events = Counted(@, MaxBurst), !.sinceInput = 0]
    /\ applied' = FALSE
    /\ UNCHANGED <<isLoading, fetched, requests, allProductsData, cards, gridMessage,
                   filtersDisabled, selectedCategory, minPriceSlider,
                   maxPriceSlider, brandList>>
    /\ UNCHANGED exceptFilter

\* time passes while a timer is pending: d milliseconds, or as many as the
\* first timer to come due has left
Advances == {200, 350}
Elapsed(ts, d) ==
    LET least == CHOOSE r \in {ts[k] : k \in 1..Len(ts)} :
                    \A k \in 1..Len(ts) : r <= ts[k]
    IN IF d < least THEN d ELSE least
Advance(d) ==
    /\ searchTimer # <<>>
    /\ Elapsed(searchTimer, d) > 0
    /\ searchTimer' = [k \in 1..Len(searchTimer) |->
                          searchTimer[k] - Elapsed(searchTimer, d)]
    /\ burst' = [burst EXCEPT !.sinceInput = @ + Elapsed(searchTimer, d)]
    /\ UNCHANGED <<isLoading, fetched, requests, allProductsData, cards, gridMessage,
                   filtersDisabled, searchBar, selectedCategory, minPriceSlider,
                   maxPriceSlider, brandList, applied>>
    /\ UNCHANGED exceptFilter

\* a timer of the debounce fires: applyAllFilters
DebounceFires(k) ==
    /\ k \in 1..Len(searchTimer)
    /\ searchTimer[k] = 0
    /\ searchTimer' = [j \in 1..(Len(searchTimer) - 1) |->
                          IF j < k THEN searchTimer[j] ELSE searchTimer[j + 1]]
    /\ burst' = [burst EXCEPT !.runs = Counted(@, 2)]
    /\ ApplyAllFilters(searchBar, selectedCategory, minPriceSlider.value,
                       maxPriceSlider.value, brandList)
    /\ UNCHANGED <<isLoading, fetched, requests, allProductsData, filtersDisabled, searchBar,
                   selectedCategory, minPriceSlider, maxPriceSlider, brandList>>
    /\ UNCHANGED exceptFilter

\* click on the search button (never disabled)
SearchButtonClick ==
    /\ Listening
    /\ ApplyAllFilters(searchBar, selectedCategory, minPriceSlider.value,
                       maxPriceSlider.value, brandList)
    /\ UNCHANGED <<isLoading, fetched, requests, allProductsData, filtersDisabled, searchBar,
                   searchTimer, burst, selectedCategory, minPriceSlider, maxPriceSlider,
                   brandList>>
    /\ UNCHANGED exceptFilter

\* click on a category item: setActiveCategory, applyAllFilters
CategoryClick(item) ==
    /\ Listening /\ ~filtersDisabled
    /\ selectedCategory' = ToLowerCase(item)
    /\ ApplyAllFilters(searchBar, ToLowerCase(item), minPriceSlider.value,
                       maxPriceSlider.value, brandList)
    /\ UNCHANGED <<isLoading, fetched, requests, allProductsData, filtersDisabled, searchBar,
                   searchTimer, burst, minPriceSlider, maxPriceSlider, brandList>>
    /\ UNCHANGED exceptFilter

\* The min slider is dragged to target and released: handlePriceSliderInput
\* on 'input' keeps it at or below the max slider, applyAllFilters on 'change'.
MinSliderChange(target) ==
    LET v == Sanitized(minPriceSlider.min, minPriceSlider.max, target)
        w == IF v > maxPriceSlider.value
             THEN Sanitized(minPriceSlider.min, minPriceSlider.max, maxPriceSlider.value)
             ELSE v
    IN /\ Listening /\ ~filtersDisabled
       /\ minPriceSlider' = [minPriceSlider EXCEPT !.value = w]
       /\ ApplyAllFilters(searchBar, selectedCategory, w, maxPriceSlider.value, brandList)
       /\ UNCHANGED <<isLoading, fetched, requests, allProductsData, filtersDisabled, searchBar,
                      searchTimer, burst, selectedCategory, maxPriceSlider, brandList>>
       /\ UNCHANGED exceptFilter

\* the same for the max slider, kept at or above the min slider
MaxSliderChange(target) ==
    LET v == Sanitized(maxPriceSlider.min, maxPriceSlider.max, target)
        w == IF v < minPriceSlider.value
             THEN Sanitized(maxPriceSlider.min, maxPriceSlider.max, minPriceSlider.value)
             ELSE v
    IN /\ Listening /\ ~filtersDisabled
       /\ maxPriceSlider' = [maxPriceSlider EXCEPT !.value = w]
       /\ ApplyAllFilters(searchBar, selectedCategory, minPriceSlider.value, w, brandList)
       /\ UNCHANGED <<isLoading, fetched, requests, allProductsData, filtersDisabled, searchBar,
                      searchTimer, burst, selectedCategory, minPriceSlider, brandList>>
       /\ UNCHANGED exceptFilter

\* 'change' on a brand checkbox
BrandChange(value) ==
    LET checked == IF value \in brandList THEN brandList \ {value}
                   ELSE brandList \cup {value}
    IN /\ Listening /\ ~filtersDisabled
       /\ brandList' = checked
       /\ ApplyAllFilters(searchBar, selectedCategory, minPriceSlider.value,
                          maxPriceSlider.value, checked)
       /\ UNCHANGED <<isLoading, fetched, requests, allProductsData, filtersDisabled, searchBar,
                      searchTimer, burst, selectedCategory, minPriceSlider, maxPriceSlider>>
       /\ UNCHANGED exceptFilter

\* click on "Clear All Filters"
ClearFilters ==
    LET lo == Slider(minPriceSlider.min, minPriceSlider.max, minPriceSlider.min)
        hi == Slider(maxPriceSlider.min, maxPriceSlider.max, maxPriceSlider.max)
    IN /\ Listening /\ ~filtersDisabled /\ ~isLoading
       /\ selectedCategory' = <<>>
       /\ minPriceSlider' = lo
       /\ maxPriceSlider' = hi
       /\ brandList' = {}
       /\ searchBar' = <<>>
       /\ ApplyAllFilters(<<>>, <<>>, lo.value, hi.value, {})
       /\ UNCHANGED <<isLoading, fetched, requests, allProductsData, filtersDisabled, searchTimer, burst>>
       /\ UNCHANGED exceptFilter

\* click on "Apply Filters", mobile: window.innerWidth <= 768
ApplyFiltersClick(mobile) ==
    /\ Listening /\ ~filtersDisabled
    /\ ApplyAllFilters(searchBar, selectedCategory, minPriceSlider.value,
                       maxPriceSlider.value, brandList)
    /\ IF mobile /\ "filterSidebar" \in visible
       THEN Leaves(CloseSidebar(UI, "filterSidebar"))
       ELSE /\ UNCHANGED <<visible, noScroll, lastFocusedElement, activeElement, timers,
                          recorded>>
            /\ lastUi' = "other"
    /\ UNCHANGED <<isLoading, fetched, requests, allProductsData, filtersDisabled, searchBar,
                   searchTimer, burst, selectedCategory, minPriceSlider, maxPriceSlider,
                   brandList>>
    /\ UNCHANGED <<opens, cartVars, recentVars, restVars>>

FilterStart ==
    /\ isLoading = FALSE
    /\ fetched = "no"
    /\ requests = [inFlight |-> 0, refused |-> 0]
    /\ allProductsData = <<>>
    /\ cards = <<>>
    /\ gridMessage = <<>>
    /\ filtersDisabled = FALSE
    /\ searchBar = <<>>
    /\ searchTimer = <<>>
    /\ burst = NoBurst
    /\ selectedCategory = <<>>
    /\ minPriceSlider = DefaultMin
    /\ maxPriceSlider = DefaultMax
    /\ brandList = {}
    /\ applied = FALSE

\* the index page with Catalog1 loaded and nothing filtered yet
FilterIdle ==
    /\ isLoading = FALSE
    /\ fetched = "done"
    /\ requests = [inFlight |-> 0, refused |-> 0]
    /\ allProductsData = Catalog1
    /\ cards = CardsOf(Catalog1)
    /\ gridMessage = <<>>
    /\ filtersDisabled = FALSE
    /\ searchBar = <<>>
    /\ searchTimer = <<>>
    /\ burst = NoBurst
    /\ selectedCategory = <<>>
    /\ minPriceSlider = Slider(SliderMin(Catalog1), SliderMax(Catalog1), SliderMin(Catalog1))
    /\ maxPriceSlider = Slider(SliderMin(Catalog1), SliderMax(Catalog1), SliderMax(Catalog1))
    /\ brandList = {}
    /\ applied = FALSE

NextFilter ==
    \/ FetchProducts
    \/ \E products \in Catalogs : FetchGivesProducts(products)
    \/ \E why \in FailureKinds : FetchFails(why)
    \/ \E text \in SearchTexts : SearchInput(text)
    \/ \E d \in Advances : Advance(d)
    \/ \E k \in 1..Len(searchTimer) : DebounceFires(k)
    \/ SearchButtonClick
    \/ \E item \in CategoryItems : CategoryClick(item)
    \/ \E target \in DragTargets : MinSliderChange(target)
    \/ \E target \in DragTargets : MaxSliderChange(target)
    \/ \E value \in BrandValues : BrandChange(value)
    \/ ClearFilters
    \/ \E mobile \in BOOLEAN : ApplyFiltersClick(mobile)

NextOverlay ==
    \/ \E sidebar \in Sidebars : ToggleClick(sidebar)
    \/ \E sidebar \in Sidebars : CloseButtonClick(sidebar)
    \/ OverlayClick
    \/ ViewButtonClick
    \/ \E by \in {"closeModalBtn", "overlayDiv"} : ProductModalCloseClick(by)
    \/ ModalImageClick
    \/ \E by \in {"closeZoomBtn", "overlayDiv"} : ZoomCloseClick(by)
    \/ AuthTriggerClick
    \/ \E by \in {"closeAuthModalBtn", "overlayDiv"} : AuthModalCloseClick(by)
    \/ Escape
    \/ \E x \in Closable : ClosedAgainClick(x)
    \/ \E mobile \in BOOLEAN : ApplyFiltersClick(mobile)
    \/ \E k \in 1..Len(timers) : RestoreFires(k)
    \/ \E k \in 1..Len(timers) : FocusFires(k)
    \/ \E k \in 1..Len(timers) : AuthCallFires(k)
    \/ \E k \in 1..Len(timers) : AuthOpenFires(k)

-----------------------------------------------------------------------------
(* Specifications: one per part of the program, the other parts idle.      *)

RestIdle == PriceIdle /\ TabsIdle /\ PageIdle

InitCart == CartStart /\ RecentIdle /\ FilterIdle /\ OverlayIdle /\ RestIdle
SpecCart == InitCart /\ [][NextCart]_vars

InitRecent == RecentStart /\ CartIdle /\ FilterIdle /\ OverlayIdle /\ RestIdle
SpecRecent == InitRecent /\ [][NextRecent]_vars

InitFilter == FilterStart /\ CartIdle /\ RecentIdle /\ OverlayIdle /\ RestIdle
SpecFilter == InitFilter /\ [][NextFilter]_vars

\* the browser settles every fetch: the promise is fulfilled or rejected,
\* and the rest of fetchProducts runs
FetchSettles ==
    \/ \E products \in Catalogs : FetchGivesProducts(products)
    \/ \E why \in FailureKinds : FetchFails(why)
SpecFetch == InitFilter /\ [][NextFilter]_vars /\ WF_vars(FetchSettles)

InitOverlay == OverlayStart /\ CartIdle /\ RecentIdle /\ FilterIdle /\ RestIdle
SpecOverlay == InitOverlay /\ [][NextOverlay]_vars

InitTabs == TabsStart /\ RecentIdle /\ FilterIdle /\ OverlayIdle /\ PriceIdle /\ PageIdle
SpecTabs == InitTabs /\ [][NextTabs]_vars

InitPage == PageStart /\ CartIdle /\ RecentIdle /\ FilterIdle /\ OverlayIdle
               /\ PriceIdle /\ TabsIdle
SpecPage == InitPage /\ [][NextPage]_vars

InitPrice == PriceStart /\ CartIdle /\ RecentIdle /\ FilterIdle /\ OverlayIdle
                /\ TabsIdle /\ PageIdle
SpecPrice == InitPrice /\ [][NextPrice]_vars

-----------------------------------------------------------------------------
(* Claims about the cart ledger, checked under SpecCart.                   *)

\* a number >= 0, as the data model asks of a unit price
NonNegative(x) == (x.t = "num" /\ x.v >= 0) \/ x.t = "inf"
\* a number >= 1, as the data model asks of a quantity
AtLeastOne(x) == (x.t = "num" /\ x.v >= 1) \/ x.t = "inf"
\* the validation sweep has run on this page
SweepRan == pc = "run" /\ cartElems

\* C2: once the validation sweep (updateCartDisplay) has run on a loaded
\* mapping, every entry left in the cart has quantity >= 1 and unit price
\* >= 0: the entries violating either bound have been dropped.
C2_SelfHealing ==
    SweepRan =>
        \A i \in Keys(cart) :
            /\ cart.m[i].t = "obj"
            /\ AtLeastOne(cart.m[i].quantity)
            /\ NonNegative(cart.m[i].price)

\* C3: n valid addToCart calls for an id that had no entry leave one entry
\* for it, with quantity n and with the name and the unit price of the first
\* call, whatever the later calls passed.
C3_AddTwice ==
    \A i \in Ids :
        nAdds[i] > 0 =>
            cart.m[i] = Item(firstAdd[i].name, ParseFloat(firstAdd[i].price),
                             Num(nAdds[i]))
\* two calls, then a third, were made for the same id
C3_Witness ==
    \E i \in Ids : nAdds[i] = 2 /\ cart.m[i].quantity = Num(2)

\* C4: after every cart mutation (a valid addToCart, the removal of a present
\* id), the storage write not failing, the text under 'shoppingCart' is the
\* serialization of window.cart, on every page, with or without the cart
\* elements.
C4_PersistedAfterMutation ==
    (last.op \in {"addToCart", "removeItem"} /\ ~last.alert /\ storageOk)
        => shoppingCart = Stringify(cart)

\* C5: addToCart with invalid input (last.bad: no id, no name or a name that
\* is no string, a price that is no number >= 0) raises the alert and leaves
\* window.cart and the stored text exactly as they were.
C5_InvalidAddRejected ==
    [][(last'.op = "addToCart" /\ last'.bad)
          => (last'.alert /\ cart' = cart /\ shoppingCart' = shoppingCart)]_vars
\* an invalid call was made on a cart that holds an item
C5_Witness ==
    last.op = "addToCart" /\ last.bad /\ last.alert /\ Keys(cart) # {}

\* the entries of c that are valid, with their name, price and quantity
ValidEntries(c) ==
    {<<i, c.m[i]>> : i \in {j \in Keys(c) :
        /\ c.m[j].t = "obj"
        /\ AtLeastOne(c.m[j].quantity)
        /\ NonNegative(c.m[j].price)}}

\* C6: a cart mapping that was persisted and is then loaded (startup parse,
\* then the validation sweep) has the same valid entries, with the same name,
\* price and quantity; the sweep of a clean mapping changes nothing.
C6_RoundTrip ==
    (last.op = "display" /\ last.saved /\ cartElems /\ ~snap.arr)
        => ValidEntries(cart) = ValidEntries(snap)

\* the stored text does not parse, or parses to something that is no object
\* mapping
BadStored(s) == s.k \in {"garbage", "null", "num", "arr"}

\* C7: when the stored text fails to parse or parses to something that is no
\* object mapping, the load step itself leaves window.cart the empty mapping
\* and the stored text the empty mapping.
C7_LoadResets ==
    [][(LoadCart /\ BadStored(shoppingCart) /\ storageOk)
          => (cart' = EmptyCart /\ shoppingCart' = StoredObj(EmptyMap))]_vars

\* C26: a click on the remove button of id, id being in the cart, deletes
\* the entry of id and leaves every other entry as it was, and the stored
\* text (the storage write not failing) is the serialization of that cart;
\* with id not in the cart, window.cart and the stored text are unchanged.
C26_RemoveItem ==
    [][\A id \in ProductIds :
          RemoveItem(id) =>
              IF id \in Keys(cart)
              THEN /\ cart'.m[id] = NoItem
                   /\ \A other \in Ids \ {id} : cart'.m[other] = cart.m[other]
                   /\ cart'.arr = cart.arr
                   /\ storageOk => shoppingCart' = Stringify(cart')
              ELSE cart' = cart /\ shoppingCart' = shoppingCart]_vars
\* one of two entries was removed: the other is in the cart and in the
\* stored text
C26_Witness ==
    /\ last.op = "removeItem"
    /\ \E i \in Ids : Keys(cart) = {i} /\ Stringify(cart).m[i].t = "obj"
    /\ shoppingCart = Stringify(cart)

\* the sum of f over the set S of ids
RECURSIVE SumOver(_, _)
SumOver(S, f) ==
    IF S = {} THEN 0
    ELSE LET i == CHOOSE j \in S : TRUE IN f[i] + SumOver(S \ {i}, f)
\* every entry of the cart has a finite price and a finite quantity
FiniteCart(c) ==
    \A i \in Keys(c) : c.m[i].t = "obj" /\ c.m[i].price.t = "num"
                                        /\ c.m[i].quantity.t = "num"

\* C27: once updateCartDisplay has run on the page, the count shown is the
\* sum of the quantities and the total shown is the sum of price * quantity,
\* with two decimals, over the entries the cart holds after the sweep; one
\* entry of price 19.99 and quantity 2 shows 2 and 39.98, the empty cart 0
\* and 0.00.
C27_Totals ==
    (SweepRan /\ FiniteCart(cart)) =>
        /\ cartTexts.count =
              [t |-> "integer",
               v |-> SumOver(Keys(cart), [i \in Ids |-> cart.m[i].quantity.v])]
        /\ cartTexts.total =
              [t |-> "fixed2",
               v |-> SumOver(Keys(cart), [i \in Ids |->
                        cart.m[i].price.v * cart.m[i].quantity.v])]
        /\ Keys(cart) = {} =>
              cartTexts = [count |-> [t |-> "integer", v |-> 0],
                           total |-> [t |-> "fixed2", v |-> 0]]
        /\ (Keys(cart) = {"p1"} /\ cart.m["p1"].price = Num(1999)
                                /\ cart.m["p1"].quantity = Num(2)) =>
              cartTexts = [count |-> [t |-> "integer", v |-> 2],
                           total |-> [t |-> "fixed2", v |-> 3998]]
\* addToCart("p1", _, "19.99") was called twice on an empty cart: 2 and
\* 39.98 are shown
C27_Witness ==
    /\ SweepRan /\ nAdds["p1"] = 2 /\ Keys(cart) = {"p1"}
    /\ cart.m["p1"].price = Num(1999)
    /\ cartTexts = [count |-> [t |-> "integer", v |-> 2],
                    total |-> [t |-> "fixed2", v |-> 3998]]

-----------------------------------------------------------------------------
(* Claims about the recently viewed list, checked under SpecRecent.        *)

NoDuplicates(l) == \A a, b \in 1..Len(l) : l[a] = l[b] => a = b
\* the visit shows a product whose id is recorded in a stored list (a missing
\* key and an unparsable text being the empty list)
Records == lastVisit'.ok /\ lastVisit'.from \in {"absent", "garbage", "arr"}

\* C8: every record(id) leaves a stored list of at most 8 ids, without
\* duplicates, with id at the front; when id was already listed the list
\* keeps its length and its ids, and the other ids keep their order.
C8_RecentlyViewedList ==
    [][Records =>
          /\ recentlyViewed'.k = "arr"
          /\ Len(recentlyViewed'.ids) <= 8
          /\ NoDuplicates(recentlyViewed'.ids)
          /\ Head(recentlyViewed'.ids) = lastVisit'.id
          /\ lastVisit'.had =>
                /\ Len(recentlyViewed'.ids) = Len(recentlyViewed.ids)
                /\ RvIds(recentlyViewed') = RvIds(recentlyViewed)
                /\ \A a, b \in 1..Len(recentlyViewed.ids) :
                      (a < b /\ recentlyViewed.ids[a] # lastVisit'.id
                             /\ recentlyViewed.ids[b] # lastVisit'.id)
                      => \E c, d \in 2..Len(recentlyViewed'.ids) :
                            /\ c < d
                            /\ recentlyViewed'.ids[c] = recentlyViewed.ids[a]
                            /\ recentlyViewed'.ids[d] = recentlyViewed.ids[b]
      ]_vars
\* a listed id was recorded again on a full list from which the cap had
\* dropped the oldest id
C8_Witness ==
    /\ lastVisit.ok /\ lastVisit.had
    /\ Len(recentlyViewed.ids) = 8
    /\ "a" \notin RvIds(recentlyViewed)

\* C9: a visit made while the stored text does not parse shows the product,
\* shows the slider in its empty state, surfaces no error, and leaves the
\* one-element list of the product's id stored.
C9_UnparsableIsEmpty ==
    (lastVisit.ok /\ lastVisit.from = "garbage") =>
        /\ detailView = "product"
        /\ rvSlider = "empty"
        /\ recentlyViewed = RvArray(<<lastVisit.id>>)
\* a product page was opened over an unparsable text
C9_Witness ==
    lastVisit.ok /\ lastVisit.from = "garbage" /\ recentlyViewed.k = "arr"

\* C21: a visit of a product made while the stored text is malformed (it
\* does not parse, or parses to something that is no Array) shows the
\* product, no error, and leaves a valid list holding the product's id
\* stored.
C21_MalformedRecovered ==
    (lastVisit.ok /\ lastVisit.from \in {"garbage", "nonarray"}) =>
        /\ detailView = "product"
        /\ recentlyViewed.k = "arr"
        /\ lastVisit.id \in RvIds(recentlyViewed)

-----------------------------------------------------------------------------
(* Claims about the grid filter, checked under SpecFilter.                 *)

\* the filter state as the data model names it
SearchTerm == Trim(ToLowerCase(searchBar))
SelectedBrands == {ToLowerCase(b) : b \in brandList}
FinalPriceOf(p) == FinalPrice(p.price, p.discount)
\* the product a card stands for
ProductOf(card) ==
    allProductsData[CHOOSE k \in 1..Len(allProductsData) :
                        allProductsData[k].id = card.id]

\* C10: once applyAllFilters has gone through the cards (catalog loaded, not
\* loading), a card is visible exactly when its product passes all four
\* tests: the trimmed lower-cased search term is empty or occurs in the
\* lower-cased name; the selected category is empty or is the lower-cased
\* category; the final price is within [min, max], ends included; no brand
\* is selected or the lower-cased brand is a selected one.
C10_FilterPredicate ==
    (applied /\ ~isLoading) =>
        \A k \in 1..Len(cards) :
            LET p == ProductOf(cards[k])
            IN cards[k].display # "none" <=>
                /\ SearchTerm = <<>>
                   \/ (p.name.t = "str" /\ Includes(ToLowerCase(p.name.s), SearchTerm))
                /\ selectedCategory = <<>>
                   \/ (p.category.t = "str"
                       /\ ToLowerCase(p.category.s) = selectedCategory)
                /\ FinalPriceOf(p).t = "num"
                /\ FinalPriceOf(p).v >= minPriceSlider.value * 100
                /\ FinalPriceOf(p).v <= maxPriceSlider.value * 100
                /\ SelectedBrands = {}
                   \/ (p.brand.t = "str" /\ ToLowerCase(p.brand.s) \in SelectedBrands)
\* all four inputs are set, one card is shown and another hidden, and the
\* shown product's final price is on the lower end of the range
C10_Witness ==
    /\ applied /\ ~isLoading
    /\ SearchTerm # <<>> /\ searchBar # SearchTerm
    /\ selectedCategory # <<>> \/ brandList # {}
    /\ \E k \in 1..Len(cards) :
          /\ cards[k].display = "flex"
          /\ FinalPriceOf(ProductOf(cards[k])).v = minPriceSlider.value * 100
    /\ \E k \in 1..Len(cards) : cards[k].display = "none"

\* the four tests by name, and the orders they can be taken in
Tests == {"text", "category", "price", "brand"}
Orders == {o \in [1..4 -> Tests] : \A i, j \in 1..4 : o[i] = o[j] => i = j}
Passes(test, p) ==
    CASE test = "text" -> NameMatches(p, SearchTerm)
      [] test = "category" -> CategoryMatches(p, selectedCategory)
      [] test = "price" ->
            PriceMatches(FinalPriceOf(p), minPriceSlider.value, maxPriceSlider.value)
      [] test = "brand" -> BrandMatches(p, SelectedBrands)
\* the cards left after the first n tests of an order, taken one after another
RECURSIVE Kept(_, _)
Kept(o, n) ==
    IF n = 0 THEN 1..Len(cards)
    ELSE {k \in Kept(o, n - 1) : Passes(o[n], ProductOf(cards[k]))}
VisibleCards == {k \in 1..Len(cards) : cards[k].display # "none"}

\* C11: once the filter has been applied (catalog loaded, not loading),
\* applying it again with the same inputs leaves every card as it is, and
\* the visible cards are the ones left by the four tests taken one after
\* another in any of the 24 orders.
C11_IdempotentAnyOrder ==
    (applied /\ ~isLoading) =>
        /\ ShownCards(cards, searchBar, selectedCategory, minPriceSlider.value,
                      maxPriceSlider.value, brandList) = cards
        /\ \A o \in Orders : Kept(o, 4) = VisibleCards
\* a filter was applied that hides one card and shows another, and each of
\* two tests fails on some card
C11_Witness ==
    /\ applied /\ ~isLoading
    /\ VisibleCards # {} /\ VisibleCards # 1..Len(cards)
    /\ \E k \in 1..Len(cards) : ~Passes("text", ProductOf(cards[k]))
    /\ \E k \in 1..Len(cards) : ~Passes("price", ProductOf(cards[k]))

\* a message paragraph of the kind is in the grid
Shows(kind) == \E k \in 1..Len(gridMessage) : gridMessage[k] = kind

\* C12: the grid holds at most one message paragraph; the 'no matches'
\* message is there only while the catalog is non-empty and no card is
\* visible, and it is there whenever the filter has run (not loading) on a
\* non-empty catalog and left no card visible; the 'no products available'
\* message is there only after a successful load of an empty catalog, and
\* the error message only after a failed load.
C12_MessageStates ==
    /\ Len(gridMessage) <= 1
    /\ Shows("noMatches") =>
          allProductsData # <<>> /\ VisibleCards = {} /\ fetched = "done"
    /\ (applied /\ ~isLoading /\ allProductsData # <<>> /\ VisibleCards = {})
          => Shows("noMatches")
    /\ Shows("noProducts") => allProductsData = <<>> /\ fetched = "done"
    /\ Shows("error") => fetched = "failed"
\* the 'no matches' message is shown over a catalog with cards, all hidden
C12_Witness ==
    Shows("noMatches") /\ cards # <<>> /\ VisibleCards = {}

\* C13: a successful catalog load that renders cards leaves both sliders
\* with the range from the floor of the lowest valid base price to the
\* ceiling of the highest, the minimum slider standing at the lower bound
\* and the maximum slider at the upper bound; with no valid price the range
\* is 0 to 1200.
C13_SliderBounds ==
    [][(fetched = "inflight" /\ fetched' = "done" /\ cards' # <<>>) =>
        LET prices == ValidPrices(allProductsData')
            lo == IF prices = {} THEN 0 ELSE Floor(Min(prices))
            hi == IF prices = {} THEN 1200 ELSE Ceil(Max(prices))
        IN /\ minPriceSlider' = [min |-> lo, max |-> hi, value |-> lo]
           /\ maxPriceSlider' = [min |-> lo, max |-> hi, value |-> hi]]_vars

\* C28: the catalog being loaded, a click on "Clear All Filters" (search
\* term, category and brands emptied, the sliders at the ends of their
\* range, applyAllFilters) leaves every card of the grid shown.
C28_DefaultsHideNothing ==
    [][(ClearFilters /\ fetched = "done") =>
          \A k \in 1..Len(cards') : cards'[k].display = "flex"]_vars

\* the cards whose product passes the four tests with the inputs as they are
PassingCards ==
    {k \in 1..Len(cards) : \A test \in Tests : Passes(test, ProductOf(cards[k]))}

\* C30: in the state a successful load ends in (renderProducts done, the
\* loading flag cleared by the finally block), the visible cards are the
\* cards whose product passes the four tests with the inputs as they then
\* are.
C30_FilteredAfterLoad ==
    [][(fetched = "inflight" /\ fetched' = "done") =>
          (VisibleCards = PassingCards)']_vars

-----------------------------------------------------------------------------
(* Claims about the overlays, checked under SpecOverlay.                   *)

\* C1: whatever sequence of open, close and Escape actions is made, and
\* whatever admissible order the timers fire in, at most one overlay is open
\* at a time.  Stated here for the three sidebars and the two modals, leaving
\* aside the zoom, which openZoom opens over the quick view on purpose.
C1_MutualExclusion ==
    Cardinality(visible \cap (Sidebars \cup Modals)) <= 1

\* the popups in the order of closeAllPopups, each with the elements that
\* show it
Zoom == {"zoomOverlay"}
AuthPopup == {"authModal", "authModalOverlay"}
QuickView == {"productModal", "modalOverlay"}
SidebarPopups == Sidebars \cup {"overlay"}
\* the open popup of the highest precedence
Topmost(v) ==
    IF v \cap Zoom # {} THEN v \cap Zoom
    ELSE IF v \cap AuthPopup # {} THEN v \cap AuthPopup
    ELSE IF v \cap QuickView # {} THEN v \cap QuickView
    ELSE v \cap SidebarPopups

\* C22: in every reachable state, what Escape leaves visible is what was
\* visible without the open popup of the highest precedence (zoom, then
\* auth modal, then quick view, then the sidebars): that popup is closed
\* and every popup of a lower precedence that was open stays open.  So with
\* the zoom over the quick view the first Escape closes the zoom only and
\* the second the quick view.
C22_EscapePrecedence ==
    CloseAllPopups(UI).visible = visible \ Topmost(visible)

\* C23: in every reachable state a close of something that is not open
\* (closeOverlay of an overlay, closeSidebar of a sidebar, closeProductModal,
\* closeAuthModal, closeZoom) changes nothing: what is visible, the scroll
\* lock and window.lastFocusedElement stay as they are and no timer is set.
C23_CloseOfClosed ==
    /\ \A x \in Overlays \ visible :
           \A el \in {"null", lastFocusedElement} : CloseOverlay(UI, x, el) = UI
    /\ \A x \in Closable \ visible : Close(UI, x) = UI
\* the close control of a sidebar that is closed was clicked while another
\* sidebar is open and a restore timer is pending
C23_Witness ==
    /\ lastUi = "closedAgain"
    /\ \E x \in Sidebars : activeElement = FirstFocusable[x] /\ x \notin visible
    /\ visible \cap Sidebars # {}
    /\ timers # <<>>

\* C24: in every reachable state in which an overlay, a sidebar or a modal
\* is visible the body has the class no-scroll (so no deferred step of an
\* earlier close has cleared it while something is open), and once nothing
\* is visible the class is removed when the pending deferred steps have run.
C24_ScrollLock ==
    /\ visible # {} => noScroll
    /\ (visible = {} /\ timers = <<>>) => ~noScroll

\* while an overlay is open, window.lastFocusedElement holds the element
\* that was recorded when that overlay was opened
RecordKept ==
    \A x \in visible \cap Overlays : lastFocusedElement = recorded[x]
\* the element that the deferred step of a close will try to focus
ElementToFocus(timer) ==
    IF timer.el # "null" THEN timer.el ELSE lastFocusedElement
\* the deferred step of every close that is pending will focus the element
\* recorded when the overlay it closes was opened
RestoresRecord ==
    \A k \in 1..Len(timers) :
        timers[k].kind = "restore" => ElementToFocus(timers[k]) = timers[k].rec

\* C25: the record made when an overlay is opened is neither overwritten
\* nor cleared while the overlay is open (by a later open, or by the
\* deferred step of an earlier close), and the close of an overlay gives the
\* focus back to the element of that record.
C25_FocusRestoration ==
    RecordKept /\ RestoresRecord

\* C29: in every reachable state in which an overlay, a sidebar or a modal
\* is visible, Escape closes at least one of the visible elements and opens
\* none, so that a finite number of presses leaves nothing visible; no state
\* has a visible sidebar or modal that Escape leaves as it is.
C29_EscapeProgress ==
    visible # {} =>
        /\ CloseAllPopups(UI).visible \subseteq visible
        /\ CloseAllPopups(UI).visible # visible

\* C16: search input events that each follow the previous one by less than
\* 350 ms leave one pending timer, set by the last of them; while it is
\* pending the timer's callback has not run for the burst; when none is
\* pending any more the callback has run exactly once, 350 ms after the
\* last event.
C16_DebounceOnce ==
    /\ Len(searchTimer) <= 1
    /\ searchTimer # <<>> =>
          /\ burst.runs = 0
          /\ searchTimer[1] + burst.sinceInput = DEBOUNCE_DELAY
    /\ (searchTimer = <<>> /\ burst.events > 0) =>
          /\ burst.runs = 1
          /\ burst.sinceInput = DEBOUNCE_DELAY
\* a burst of two or more events is over and the filter has run once for it
C16_Witness ==
    /\ burst.events >= 2 /\ burst.runs = 1
    /\ searchTimer = <<>> /\ applied

\* C17: at most one request for the product list is in flight, a call of
\* fetchProducts made while the flag is set starts none, the flag is set
\* exactly while the request is in flight (so it is clear after every
\* outcome), and whenever it is set it is cleared later.
C17_FetchGuard ==
    /\ [](/\ requests.inFlight <= 1
          /\ isLoading <=> requests.inFlight = 1
          /\ fetched \in {"done", "failed"} => ~isLoading)
    /\ (isLoading ~> ~isLoading)
\* fetchProducts was called a second time while the request was out, and
\* returned at the guard
C17_Witness ==
    isLoading /\ requests.inFlight = 1 /\ requests.refused = 1

\* C18: from a failed fetch on, the catalog is the empty list, the grid
\* holds no card and exactly one message, the error message, the search bar
\* and the filters are disabled, and the loading flag is clear.
C18_FetchFailure ==
    fetched = "failed" =>
        /\ allProductsData = <<>> /\ cards = <<>>
        /\ gridMessage = <<"error">>
        /\ filtersDisabled
        /\ ~isLoading
\* after a failed fetch the search button was clicked and applyAllFilters
\* ran
C18_Witness ==
    fetched = "failed" /\ applied /\ gridMessage = <<"error">>

-----------------------------------------------------------------------------
(* Claims about calculateDiscountedPrice, checked under SpecPrice.         *)

Called == calcResult # NoResult
ValidPrice(x) == x.t \in {"num", "inf"} /\ x.v >= 0
PositiveDiscount ==
    calcDiscount.type = "none"
    \/ (calcDiscount.type \in {"percent", "fixed"} /\ calcDiscount.value > 0)
\* a <= b and a < b of two JavaScript numbers
NumLe(a, b) ==
    /\ a.t \in {"num", "inf"} /\ b.t \in {"num", "inf"}
    /\ b.t = "inf" \/ (a.t = "num" /\ a.v <= b.v)
NumLt(a, b) == a.t = "num" /\ (b.t = "inf" \/ (b.t = "num" /\ a.v < b.v))

\* C14: for a price that is a number >= 0 and a discount that is absent or
\* percent or fixed with a positive value, the result has
\* finalPrice <= price, and hasDiscount exactly when finalPrice < price.
C14_PriceBound ==
    (Called /\ ValidPrice(calcPrice) /\ PositiveDiscount) =>
        /\ NumLe(calcResult.finalPrice, calcPrice)
        /\ calcResult.hasDiscount <=> NumLt(calcResult.finalPrice, calcPrice)

\* price * (1 - v / 100) rounded to 2 decimal places, in tenths of a cent:
\* the multiples r of a cent with 100 r nearest to price * (100 - v); there
\* are two when the amount ends on half a cent
Rounded(price, v) ==
    LET cents == {UnitsPerCent * k : k \in 0..(price \div UnitsPerCent + 1)}
    IN {r \in cents : /\ 2 * (100 * r - price * (100 - v)) <= 100 * UnitsPerCent
                      /\ 2 * (price * (100 - v) - 100 * r) <= 100 * UnitsPerCent}
PercentCall ==
    /\ Called /\ calcPrice.t = "num" /\ calcPrice.v >= 0
    /\ calcDiscount.type = "percent"
    /\ calcDiscount.value > 0 /\ calcDiscount.value <= 100

\* C15 as stated: for a valid price and a percent discount 0 < v <= 100 the
\* finalPrice is price * (1 - v / 100) rounded to 2 decimal places.
C15_PercentAsStated ==
    PercentCall =>
        \E r \in Rounded(calcPrice.v, calcDiscount.value) :
            calcResult.finalPrice = Num(r)

\* C15, amended: for a valid price and a percent discount 0 < v <= 100, when
\* price * (1 - v / 100) rounded to 2 decimal places is below the price, it
\* is the finalPrice, with discountText "v% off" and hasDiscount true;
\* otherwise the finalPrice is the price, with no discountText and
\* hasDiscount false.
C15_PercentRounded ==
    PercentCall =>
        \E r \in Rounded(calcPrice.v, calcDiscount.value) :
           IF r < calcPrice.v
           THEN /\ calcResult.finalPrice = Num(r)
                /\ calcResult.discountText = PercentText(calcDiscount.value)
                /\ calcResult.hasDiscount
           ELSE /\ calcResult.finalPrice = calcPrice
                /\ calcResult.discountText = NoDiscountText
                /\ ~calcResult.hasDiscount
\* the call with price 100 and 10 percent gave 90, "10% off" and hasDiscount
C15_Witness ==
    /\ PercentCall
    /\ calcPrice = Num(100000) /\ calcDiscount = Percent(10)
    /\ calcResult.finalPrice = Num(90000)
    /\ calcResult.discountText = PercentText(10)
    /\ calcResult.hasDiscount

-----------------------------------------------------------------------------
(* Claim about two tabs, checked under SpecTabs.                           *)

\* both tabs loaded the same stored text, and since then tab A has added
\* product x and after it tab B another product y, and nothing else
AThenB(x, y) ==
    /\ tabs["A"].pc = "run" /\ tabs["B"].pc = "run"
    /\ tabs["A"].base = tabs["B"].base
    /\ tabLog = <<[tab |-> "A", id |-> x], [tab |-> "B", id |-> y]>>

\* C19: when both tabs started from the same stored cart and A added x and
\* then B added another product y, the stored cart is B's cart: it holds y
\* as B has it and holds for x what both tabs loaded, not what A has after
\* its addition.
C19_LastWriterWins ==
    \A x, y \in Ids :
        (x # y /\ AThenB(x, y)) =>
            /\ shoppingCart = Stringify(tabs["B"].cart)
            /\ shoppingCart.m[y] = Stringify(tabs["B"].cart).m[y]
            /\ shoppingCart.m[y].t = "obj"
            /\ shoppingCart.m[x] = Stringify(LoadedCart(tabs["B"].base)).m[x]
            /\ shoppingCart.m[x] # Stringify(tabs["A"].cart).m[x]
\* from an empty stored cart A added p1 and then B added p2: the stored cart
\* holds p2 only
C19_Witness ==
    /\ AThenB("p1", "p2")
    /\ tabs["A"].base = StoredObj(EmptyMap)
    /\ shoppingCart.m["p1"].t = "none" /\ shoppingCart.m["p2"].t = "obj"

-----------------------------------------------------------------------------
(* Claim about the start of the detail page, checked under SpecPage.       *)

\* C20: on a detail page that has script.js and #product-detail-content and
\* lacks one other expected container, once both DOMContentLoaded handlers
\* have run the product load has been started, the cart display has been
\* updated and the common listeners have been initialised.
C20_OnlyOneFeatureOff ==
    (/\ pageInit.step = 2
     /\ {"script.js", "product-detail-content"} \subseteq pageElems
     /\ Cardinality(PageElements \ pageElems) = 1) =>
        /\ pageInit.productLoad
        /\ pageInit.cartDisplay
        /\ pageInit.commonListeners

====
